---------------------------- MODULE Spec2Model ----------------------------
(***************************************************************************)
(* Offline-resilience core of the StaySense page script (src/src/app.js):  *)
(* the score cache, the signal outbound queue with its flush passes, the   *)
(* health probe, and the triggers that start them; and the service worker  *)
(* (service-worker.js) with its partitions, lifecycle and fetch routes.    *)
(*                                                                         *)
(* The page runs on one cooperative event loop.  Every action below is one *)
(* synchronous segment of a handler: from the event (or the settling of    *)
(* the awaited request) up to the next await.  A nullable JavaScript value *)
(* is the empty tuple (null) or a one-element tuple (the value).           *)
(* Coordinates are fixed-point integers in units of 0.00001 degree.        *)
(***************************************************************************)
EXTENDS Integers, Sequences, FiniteSets, TLC

(* ------------------------------ bounds -------------------------------- *)
\* Calls of putScoreCache in a run of SpecCache.
MaxPuts == 3
\* Browser and user events handled after initialize(): online/offline
\* events, interval callbacks, checkbox changes and clicks.
MaxEvents == 2
\* Entries an earlier session left in the stored queue.
MaxPriorQueue == 2
\* Releases of the worker script that get registered.
MaxVersions == 2
\* Clock readings up to which the load button is clicked again.
MaxClock == 3

(* ------------------------- program constants -------------------------- *)
DEVICE_TOKEN_KEY == "staysense.device_token.v1"
SETTINGS_KEY == "staysense.settings.v1"
SCORE_CACHE_KEY == "staysense.score_cache.v1"
SIGNAL_QUEUE_KEY == "staysense.signal_queue.v1"
MAX_CACHE_ITEMS == 50

StorageKeys == {DEVICE_TOKEN_KEY, SETTINGS_KEY, SCORE_CACHE_KEY, SIGNAL_QUEUE_KEY}

VARIABLES
  pagePc,               \* "boot" before initialize() has run, then "running"
  now,                  \* the clock read by new Date()
  localStorage,         \* the browser's durable storage, key -> item
  scoreCache,           \* let scoreCache
  signalQueue,          \* let signalQueue
  settings,             \* let settings
  currentSpot,          \* let currentSpot (nullable)
  deviceToken,          \* const deviceToken
  apiOnline,            \* let apiOnline
  lastHealthCheckAt,    \* let lastHealthCheckAt (nullable)
  lastHealthLatencyMs,  \* let lastHealthLatencyMs (nullable)
  signalStatus,         \* signalStatusEl.textContent
  queueStatus,          \* queueStatusEl.textContent (the rendered count)
  dataStatus,           \* dataStatusEl.textContent
  networkStatus,        \* networkStatusEl.textContent
  flushes,              \* the flushSignalQueue passes, in start order
  sends,                \* the sendSignal invocations, in start order
  probes,               \* the checkApiHealth invocations, in start order
  loads,                \* the loadScore invocations, in start order
  requests,             \* the POST /spot/signal requests in flight
  loadScoreDisabled,    \* loadScoreEl.disabled
  flushCalls,           \* history: number of calls of flushSignalQueue
  hints,                \* history: number of online/offline events handled
  ticks,                \* history: number of interval callbacks run
  toggles,              \* history: number of checkbox changes handled
  puts,                 \* history: number of calls of putScoreCache
  reloads,              \* history: number of reloads of the page
  storageFull,          \* the storage quota of the origin is used up
  call,                 \* the latest call of a pure helper and its result
  caches,               \* CacheStorage of the origin: partitions in creation order
  workers,              \* the service workers registered so far, by version
  controller            \* version of the worker controlling the page, 0 if none

vars == <<pagePc, now, localStorage, scoreCache, signalQueue, settings,
          currentSpot, deviceToken, apiOnline, lastHealthCheckAt,
          lastHealthLatencyMs, signalStatus, queueStatus, dataStatus,
          networkStatus, flushes, sends, probes, loads, requests,
          loadScoreDisabled, flushCalls, hints, ticks, toggles,
          puts, reloads, storageFull, call, caches, workers,
          controller>>

(* ------------------------------ helpers ------------------------------- *)
Null == <<>>

Some(v) == <<v>>

Range(s) == {s[i] : i \in 1..Len(s)}

Min(a, b) == IF a <= b THEN a ELSE b

Abs(x) == IF x < 0 THEN -x ELSE x

(* ------------------------- durable storage ---------------------------- *)
\* An item of localStorage: absent, a JSON text (held as the value it
\* encodes; any other kind of item does not parse), or a raw string.
Absent == [kind |-> "absent"]

JSONstringify(value) == [kind |-> "json", val |-> value]

loadJSONOneFailureFailsAll(store, key, fallback) ==
  IF \A k \in {SETTINGS_KEY, SCORE_CACHE_KEY, SIGNAL_QUEUE_KEY} :
       store[k].kind # "raw"
    THEN (IF store[key].kind = "json" THEN store[key].val ELSE fallback)
    ELSE fallback

\* Lines 138-145: JSON.parse of the stored text, and the fallback for a
\* missing item, an empty text and a text that does not parse.
loadJSON(store, key, fallback) ==
  IF store[key].kind = "json" THEN store[key].val ELSE fallback

\* The length of a stored text, in entries of the list it encodes.
TextLength(key, item) ==
  IF item.kind # "json" THEN 0
  ELSE IF key = SETTINGS_KEY THEN 1
  ELSE 1 + Len(item.val)

\* Line 148: with the quota used up, setItem of a text longer than the one
\* it replaces throws QuotaExceededError, and saveJSON lets it pass.
saveJSONThrows(full, store, key, value) ==
  full /\ TextLength(key, JSONstringify(value)) > TextLength(key, store[key])

saveJSONDropsWrite(store, key, value) == store

\* Lines 147-149: setItem of the JSON text, where the storage takes it.
saveJSON(store, key, value) == [store EXCEPT ![key] = JSONstringify(value)]

(* ---------------------------- score cache ----------------------------- *)
\* Number(x).toFixed(4) of a coordinate given in units of 0.00001: the sign
\* and the magnitude in units of 0.0001.
toFixed4(x) == [neg |-> x < 0, mag |-> (Abs(x) + 5) \div 10]

cacheKey(lat, lon) == <<toFixed4(lat), toFixed4(lon)>>

putScoreCacheNoSlice(cache, entry) ==
  <<entry>> \o SelectSeq(cache, LAMBDA it : it.key # entry.key)

putScoreCacheKeepsDuplicate(cache, entry) ==
  LET list == <<entry>> \o cache
  IN  SubSeq(list, 1, Min(Len(list), MAX_CACHE_ITEMS))

putScoreCacheEvictsSecond(cache, entry) ==
  LET list == <<entry>> \o SelectSeq(cache, LAMBDA it : it.key # entry.key)
  IN  IF Len(list) > MAX_CACHE_ITEMS
        THEN <<entry>> \o SubSeq(list, 3, Len(list))
        ELSE list

\* scoreCache = [entry, ...scoreCache.filter(...)].slice(0, MAX_CACHE_ITEMS)
putScoreCache(cache, entry) ==
  LET list == <<entry>> \o SelectSeq(cache, LAMBDA it : it.key # entry.key)
  IN  SubSeq(list, 1, Min(Len(list), MAX_CACHE_ITEMS))

findCachedScoreNearestLat(cache, lat, lon) ==
  LET hits == SelectSeq(cache, LAMBDA it : it.key[1] = cacheKey(lat, lon)[1])
  IN  IF Len(hits) = 0 THEN Null ELSE Some(hits[1])

\* scoreCache.find((it) => it.key === cacheKey(lat, lon)); undefined is Null.
findCachedScore(cache, lat, lon) ==
  LET hits == SelectSeq(cache, LAMBDA it : it.key = cacheKey(lat, lon))
  IN  IF Len(hits) = 0 THEN Null ELSE Some(hits[1])

(* ------------------------- device identity ---------------------------- *)
UUIDs == {"uuid-a", "uuid-b"}

ensureDeviceTokenAlwaysFresh(store, uuid) ==
  [token |-> uuid,
   store |-> [store EXCEPT ![DEVICE_TOKEN_KEY] = [kind |-> "raw", val |-> uuid]]]

\* The token and the storage after ensureDeviceToken(); uuid is the value
\* crypto.randomUUID() would return.
ensureDeviceToken(store, uuid) ==
  IF store[DEVICE_TOKEN_KEY].kind = "raw"
    THEN [token |-> store[DEVICE_TOKEN_KEY].val, store |-> store]
    ELSE [token |-> uuid,
          store |-> [store EXCEPT ![DEVICE_TOKEN_KEY] =
                       [kind |-> "raw", val |-> uuid]]]

(* --------------------- what an earlier session left -------------------- *)
\* Pilot coordinates of initialize(), in units of 0.00001 degree.
PilotLat == 5125000

PilotLon == 697300

\* Latitude of the i-th quantization cell north of the pilot spot.
CellLat(i) == PilotLat + 10 * i

\* Answers of GET /spot/score; has_data is payload.meta.health.has_data.
ScorePayloads == {[spot_id |-> "spot-1", score |-> 70, has_data |-> TRUE],
                  [spot_id |-> "spot-2", score |-> 35, has_data |-> FALSE]}

PriorPayload == [spot_id |-> "spot-1", score |-> 70, has_data |-> TRUE]

PriorEntry(n) ==
  [key |-> cacheKey(CellLat(n), PilotLon),
   fetchedAt |-> n,
   payload |-> PriorPayload]

\* The cache an earlier session leaves after n <= MAX_CACHE_ITEMS successful
\* score loads of the cells 1..n in this order, starting from the empty
\* cache: every put prepends, so the newest cell n is the head.
PriorCache(n) == [i \in 1..n |-> PriorEntry(n + 1 - i)]

PriorToken == "uuid-0"

\* The queue an earlier session leaves after k sends that failed.
PriorSignal(j) ==
  [spot_id |-> "spot-1", signal_type |-> "calm",
   device_token |-> PriorToken, timestamp |-> MAX_CACHE_ITEMS + j]

PriorQueue(k) == [j \in 1..k |-> PriorSignal(j)]

SessionStart == MAX_CACHE_ITEMS + MaxPriorQueue + 1

EmptyStorage == [k \in StorageKeys |-> Absent]

StorageWith(cache, queue) ==
  [EmptyStorage EXCEPT
     ![DEVICE_TOKEN_KEY] = [kind |-> "raw", val |-> PriorToken],
     ![SCORE_CACHE_KEY] = JSONstringify(cache),
     ![SIGNAL_QUEUE_KEY] = JSONstringify(queue)]

(* ------------------------- module-level state ------------------------- *)
\* Lines 62-75: the state once the script's declarations have run, before
\* initialize().
ModuleLevel(store0, uuid) ==
  LET id == ensureDeviceToken(store0, uuid) IN
  /\ pagePc = "boot"
  /\ now = SessionStart
  /\ currentSpot = Null
  /\ scoreCache = loadJSON(store0, SCORE_CACHE_KEY, <<>>)
  /\ signalQueue = loadJSON(store0, SIGNAL_QUEUE_KEY, <<>>)
  /\ settings = loadJSON(store0, SETTINGS_KEY, [signalsEnabled |-> TRUE])
  /\ apiOnline = FALSE
  /\ lastHealthCheckAt = Null
  /\ lastHealthLatencyMs = Null
  /\ deviceToken = id.token
  /\ localStorage = id.store
  /\ signalStatus = [msg |-> "none"]
  /\ queueStatus = 0
  /\ dataStatus = "none"
  /\ networkStatus = [online |-> FALSE, checkedAt |-> Null, latency |-> Null]
  /\ flushes = <<>>
  /\ sends = <<>>
  /\ probes = <<>>
  /\ loads = <<>>
  /\ requests = {}
  /\ loadScoreDisabled = FALSE
  /\ flushCalls = 0
  /\ hints = 0
  /\ ticks = 0
  /\ toggles = 0
  /\ puts = 0
  /\ reloads = 0
  /\ call = [fn |-> "none"]

\* The first load of the page in a browser whose storage takes writes.
PageInit(store0, uuid) ==
  /\ ModuleLevel(store0, uuid)
  /\ storageFull = FALSE

\* No service worker is registered: the first visit, or a browser without
\* service workers (pwa.js registers one only where they exist).
NoWorker ==
  /\ caches = <<>>
  /\ workers = <<>>
  /\ controller = 0

InitWith(store0, uuid) == PageInit(store0, uuid) /\ NoWorker

(* ========================= the service worker ========================= *)
\* The worker script (service-worker.js) of version v; the repository
\* ships version 1, a later release bumps SW_VERSION.
CORE_CACHE(v) == [version |-> v, part |-> "core"]

RUNTIME_CACHE(v) == [version |-> v, part |-> "runtime"]

CORE_ASSETS ==
  {"/", "/index.html", "/styles.css", "/app.js", "/pwa.js", "/manifest.json",
   "/icons/icon.svg", "/icons/icon-192.png", "/icons/icon-512.png",
   "/icons/apple-touch-icon.png", "/vendor/leaflet/leaflet.css",
   "/vendor/leaflet/leaflet.js", "/datenschutz.html", "/quellen.html"}

\* A request URL of the origin: its path and its query values.
Url(path, query) == [path |-> path, query |-> query]

\* API_BASE is "/api" wherever the page is not served from localhost.
HealthUrl == Url("/api/health", <<>>)

ScoreUrl(lat, lon, at) == Url("/api/spot/score", <<lat, lon, at>>)

\* The response stored for a core asset.
AssetResponse(path) == [kind |-> "ok", body |-> path]

(* ---------------- CacheStorage, as the worker uses it ----------------- *)
\* caches is the sequence of partitions in creation order; a partition is
\* its name and its entries, at most one per URL.
HasCache(cs, name) == \E i \in 1..Len(cs) : cs[i].name = name

\* caches.open(name) creates the partition when it does not exist.
cachesOpen(cs, name) ==
  IF HasCache(cs, name) THEN cs
  ELSE Append(cs, [name |-> name, entries |-> {}])

\* cache.put(request, response) replaces the entry of the request.
cachePut(cs, name, url, response) ==
  [i \in 1..Len(cs) |->
     IF cs[i].name = name
       THEN [cs[i] EXCEPT !.entries =
               {e \in @ : e.url # url}
                 \cup {[url |-> url, response |-> response]}]
       ELSE cs[i]]

\* caches.match(request): the entry of the first partition, in creation
\* order, that holds the URL; undefined is Null.
cachesMatch(cs, url) ==
  LET hits == SelectSeq(cs, LAMBDA c : \E e \in c.entries : e.url = url)
  IN  IF Len(hits) = 0 THEN Null
      ELSE Some((CHOOSE e \in hits[1].entries : e.url = url).response)

cachesKeys(cs) == [i \in 1..Len(cs) |-> cs[i].name]

cachesDelete(cs, name) == SelectSeq(cs, LAMBDA c : c.name # name)

networkFirstNeverStores(cs, v, url, net) ==
  IF net.kind # "network_error"
    THEN [response |-> Some(net), caches |-> cs, ops |-> <<"fetch">>]
    ELSE [response |-> cachesMatch(cs, url), caches |-> cs,
          ops |-> <<"fetch", "match">>]

\* Lines 156-167: networkFirst of worker v for the request of url, the
\* network answering net.  The result is the response the worker answers
\* with (Null: it throws "offline"), the partitions afterwards and the
\* network and CacheStorage operations it performed, in order.
networkFirst(cs, v, url, net) ==
  IF net.kind # "network_error"
    THEN [response |-> Some(net),
          caches |-> cachePut(cachesOpen(cs, RUNTIME_CACHE(v)),
                              RUNTIME_CACHE(v), url, net),
          ops |-> <<"fetch", "open", "put">>]
    ELSE [response |-> cachesMatch(cs, url), caches |-> cs,
          ops |-> <<"fetch", "match">>]

cacheFirstRevalidates(cs, v, url, net) ==
  IF net.kind # "network_error"
    THEN [response |-> Some(net),
          caches |-> cachePut(cachesOpen(cs, RUNTIME_CACHE(v)),
                              RUNTIME_CACHE(v), url, net),
          ops |-> <<"fetch", "open", "put">>]
    ELSE [response |-> cachesMatch(cs, url), caches |-> cs,
          ops |-> <<"fetch", "match">>]

cacheFirstStoresOnlyOk(cs, v, url, net) ==
  IF cachesMatch(cs, url) # Null
    THEN [response |-> cachesMatch(cs, url), caches |-> cs,
          ops |-> <<"match">>]
  ELSE IF net.kind = "network_error"
    THEN [response |-> Null, caches |-> cs, ops |-> <<"match", "fetch">>]
  ELSE IF net.kind # "ok"
    THEN [response |-> Some(net), caches |-> cs, ops |-> <<"match", "fetch">>]
  ELSE [response |-> Some(net),
        caches |-> cachePut(cachesOpen(cs, RUNTIME_CACHE(v)),
                            RUNTIME_CACHE(v), url, net),
        ops |-> <<"match", "fetch", "open", "put">>]

\* Lines 147-154: cacheFirst of worker v.  A cached copy is answered without
\* a network request; else the network's answer is stored and returned, and
\* a failing fetch rejects cacheFirst (Null).
cacheFirst(cs, v, url, net) ==
  IF cachesMatch(cs, url) # Null
    THEN [response |-> cachesMatch(cs, url), caches |-> cs,
          ops |-> <<"match">>]
  ELSE IF net.kind = "network_error"
    THEN [response |-> Null, caches |-> cs, ops |-> <<"match", "fetch">>]
  ELSE [response |-> Some(net),
        caches |-> cachePut(cachesOpen(cs, RUNTIME_CACHE(v)),
                            RUNTIME_CACHE(v), url, net),
        ops |-> <<"match", "fetch", "open", "put">>]

\* The paths the origin serves, by the tests of the fetch listener:
\* startsWith("/api/map/tile/"),
TilePaths == {"/api/map/tile/12/2100/1300"}

\* startsWith("/vendor/") or endsWith(".css"), (".js"), (".svg"),
StaticPaths == {"/styles.css", "/app.js", "/pwa.js", "/icons/icon.svg",
                "/vendor/leaflet/leaflet.css", "/vendor/leaflet/leaflet.js"}

\* === "/api/health" or startsWith("/api/spot/score"),
ApiPaths == {"/api/health", "/api/spot/score"}

\* === "/" or endsWith(".html").
MarkupPaths == {"/", "/index.html", "/datenschutz.html", "/quellen.html",
                "/impressum.html"}

\* new Response("Offline", { status: 503, statusText: "Offline" })
OfflineResponse == [kind |-> "http_error", body |-> "Offline"]

fetchListenerIgnoresMethod(cs, v, request, net) ==
  LET url == request.url
      pass == [intercepted |-> FALSE, response |-> Null, caches |-> cs,
               ops |-> <<>>]
      with(r) == [intercepted |-> TRUE, response |-> r.response,
                  caches |-> r.caches, ops |-> r.ops]
  IN  IF url.path \in TilePaths \cup StaticPaths
        THEN with(cacheFirst(cs, v, url, net))
      ELSE IF url.path \in ApiPaths \cup MarkupPaths
        THEN with(networkFirst(cs, v, url, net))
      ELSE pass

fetchListenerNoIndexFallback(cs, v, request, net) ==
  LET url == request.url
      pass == [intercepted |-> FALSE, response |-> Null, caches |-> cs,
               ops |-> <<>>]
      with(r) == [intercepted |-> TRUE, response |-> r.response,
                  caches |-> r.caches, ops |-> r.ops]
  IN  IF request.method # "GET" THEN pass
      ELSE IF url.path \in TilePaths \cup StaticPaths
        THEN with(cacheFirst(cs, v, url, net))
      ELSE IF url.path \in ApiPaths THEN with(networkFirst(cs, v, url, net))
      ELSE IF url.path \in MarkupPaths
        THEN LET first == networkFirst(cs, v, url, net)
             IN  IF first.response # Null THEN with(first)
                 ELSE with([response |-> Some(OfflineResponse),
                            caches |-> first.caches, ops |-> first.ops])
      ELSE pass

\* Lines 169-198: the fetch listener of worker v for a request, the network
\* answering net if asked.  intercepted: respondWith was called; response:
\* what its promise resolves to (Null: it rejects); ops: the network and
\* CacheStorage operations of the handling, in order.
fetchListener(cs, v, request, net) ==
  LET url == request.url
      pass == [intercepted |-> FALSE, response |-> Null, caches |-> cs,
               ops |-> <<>>]
      with(r) == [intercepted |-> TRUE, response |-> r.response,
                  caches |-> r.caches, ops |-> r.ops]
  IN  IF request.method # "GET" THEN pass
      ELSE IF url.path \in TilePaths THEN with(cacheFirst(cs, v, url, net))
      ELSE IF url.path \in StaticPaths THEN with(cacheFirst(cs, v, url, net))
      ELSE IF url.path \in ApiPaths THEN with(networkFirst(cs, v, url, net))
      ELSE IF url.path \in MarkupPaths
        THEN LET first == networkFirst(cs, v, url, net)
                 fallback == cachesMatch(first.caches,
                                         Url("/index.html", <<>>))
                 ops == first.ops \o <<"match">>
             IN  IF first.response # Null THEN with(first)
                 ELSE IF fallback # Null
                   THEN with([response |-> fallback, caches |-> first.caches,
                              ops |-> ops])
                 ELSE with([response |-> Some(OfflineResponse),
                            caches |-> first.caches, ops |-> ops])
      ELSE pass

\* Lines 183-187 of the fetch listener: a GET of the page for /api/health or
\* /api/spot/score goes through networkFirst of the controlling worker;
\* without a controller it goes to the network.  Null: the fetch rejects.
PageFetch(cs, ctl, url, net) ==
  IF ctl = 0
    THEN [response |-> IF net.kind = "network_error" THEN Null ELSE Some(net),
          caches |-> cs, ops |-> <<"fetch">>]
    ELSE networkFirst(cs, ctl, url, net)

\* A worker that has installed and activated and is not handling an event.
ActivatedWorker == [state |-> "activated", pc |-> "idle", stale |-> {}]

CoreEntries == {[url |-> Url(a, <<>>), response |-> AssetResponse(a)] :
                  a \in CORE_ASSETS}

\* The page is controlled by the worker of version 1, which installed and
\* activated on an earlier visit; runtime is what its runtime partition
\* holds (the partition does not exist before the first put).
WorkerControls(runtime) ==
  /\ caches = <<[name |-> CORE_CACHE(1), entries |-> CoreEntries]>>
                \o (IF runtime = {} THEN <<>>
                    ELSE <<[name |-> RUNTIME_CACHE(1), entries |-> runtime]>>)
  /\ workers = <<ActivatedWorker>>
  /\ controller = 1

(* ============================ the page ================================ *)
\* toLocal(iso): "-" for an empty value, else the de-DE rendering of it.
toLocal(iso) ==
  IF iso = Null THEN [text |-> "-"] ELSE [text |-> "de-DE", iso |-> iso[1]]

\* renderNetworkStatus(): the text is a function of the three health fields.
renderNetworkStatus(online, checkedAt, latency) ==
  [online |-> online, checkedAt |-> toLocal(checkedAt), latency |-> latency]

(* --------------------------- submitSignal ----------------------------- *)
\* What the server (or the network) can answer to POST /spot/signal.
SignalResponses ==
  {[kind |-> "ok", next_allowed_at |-> Null],
   [kind |-> "cooldown", next_allowed_at |-> Some("next-allowed")],
   [kind |-> "cooldown", next_allowed_at |-> Null],
   [kind |-> "http_error", next_allowed_at |-> Null],
   [kind |-> "network_error", next_allowed_at |-> Null]}

\* Lines 729-743, after the request has settled with resp: whether
\* submitSignal throws, and the message of the error.  A request that
\* fetch rejects throws the network stack's own error.
submitSignal(resp) ==
  IF resp.kind = "network_error"
    THEN [threw |-> TRUE, head |-> "Failed to fetch", tail |-> Null]
  ELSE IF resp.kind = "ok"
    THEN [threw |-> FALSE, head |-> "", tail |-> Null]
  ELSE IF resp.kind = "cooldown"
    THEN [threw |-> TRUE, head |-> "cooldown:", tail |-> resp.next_allowed_at]
  ELSE [threw |-> TRUE, head |-> "signal_failed", tail |-> Null]

\* A request in flight: the invocation that awaits it and its body.
NewRequest(op, id, signal) == [op |-> op, id |-> id, signal |-> signal]

RequestsOf(op, id) == {r \in requests : r.op = op /\ r.id = id}

\* The browser and user events the page has handled since initialize().
Events == hints + ticks + toggles + Len(sends) + Len(loads) + reloads

(* ------------------------- flushSignalQueue --------------------------- *)
\* An invocation that has returned: its locals are gone.
DonePass == [pc |-> "done", pending |-> <<>>, i |-> 0, keep |-> <<>>,
             outcomes |-> <<>>, enq |-> <<>>]

\* An invocation whose promise has rejected with nobody handling it.
RejectedPass == [DonePass EXCEPT !.pc = "rejected"]

\* History kept with a pass in progress: how each submission ended.
Outcome(resp) ==
  IF ~submitSignal(resp).threw THEN "ok"
  ELSE IF submitSignal(resp).head = "cooldown:" THEN "cooldown"
  ELSE "failed"

flushSignalAtReversed(pending, i) == pending[Len(pending) + 1 - i]

\* for (const signal of pending): the entry of the i-th iteration.
flushSignalAt(pending, i) == pending[i]

FlushCallRespectsSetting ==
  /\ flushCalls' = flushCalls + 1
  /\ IF Len(signalQueue) = 0 \/ ~settings.signalsEnabled
       THEN UNCHANGED <<flushes, requests>>
       ELSE LET pending == signalQueue
                id == Len(flushes) + 1
            IN  /\ flushes' = Append(flushes,
                       [pc |-> "await", pending |-> pending, i |-> 1,
                        keep |-> <<>>, outcomes |-> <<>>, enq |-> <<>>])
                /\ requests' = requests \cup
                       {NewRequest("flush", id, flushSignalAt(pending, 1))}

FlushCallSnapshotsHead ==
  /\ flushCalls' = flushCalls + 1
  /\ IF Len(signalQueue) = 0
       THEN UNCHANGED <<flushes, requests>>
       ELSE LET pending == <<signalQueue[1]>>
                id == Len(flushes) + 1
            IN  /\ flushes' = Append(flushes,
                       [pc |-> "await", pending |-> pending, i |-> 1,
                        keep |-> <<>>, outcomes |-> <<>>, enq |-> <<>>])
                /\ requests' = requests \cup
                       {NewRequest("flush", id, flushSignalAt(pending, 1))}

\* Lines 745-755: a call of flushSignalQueue up to its first await.  On an
\* empty queue it returns at once; else it snapshots the queue and issues
\* the submission of the first entry.
FlushCall ==
  /\ flushCalls' = flushCalls + 1
  /\ IF Len(signalQueue) = 0
       THEN UNCHANGED <<flushes, requests>>
       ELSE LET pending == signalQueue
                id == Len(flushes) + 1
            IN  /\ flushes' = Append(flushes,
                       [pc |-> "await", pending |-> pending, i |-> 1,
                        keep |-> <<>>, outcomes |-> <<>>, enq |-> <<>>])
                /\ requests' = requests \cup
                       {NewRequest("flush", id, flushSignalAt(pending, 1))}

\* Lines 753-768: the awaited submission of pass p settles with resp; the
\* loop goes on to the next entry, or the pass replaces and persists the
\* queue.
FlushSettle(p, resp) ==
  /\ p \in 1..Len(flushes)
  /\ flushes[p].pc = "await"
  /\ RequestsOf("flush", p) # {}
  /\ LET f == flushes[p]
         signal == flushSignalAt(f.pending, f.i)
         keep == IF submitSignal(resp).threw
                   THEN Append(f.keep, signal) ELSE f.keep
         outcomes == Append(f.outcomes, Outcome(resp))
         settled == requests \ {NewRequest("flush", p, signal)}
     IN  IF f.i < Len(f.pending)
           THEN /\ flushes' = [flushes EXCEPT ![p] =
                     [f EXCEPT !.i = f.i + 1, !.keep = keep,
                               !.outcomes = outcomes]]
                /\ requests' = settled \cup
                     {NewRequest("flush", p, flushSignalAt(f.pending, f.i + 1))}
                /\ UNCHANGED <<signalQueue, localStorage, queueStatus,
                               signalStatus>>
           ELSE /\ requests' = settled
                /\ signalQueue' = keep
                /\ IF saveJSONThrows(storageFull, localStorage,
                                     SIGNAL_QUEUE_KEY, keep)
                     \* saveJSON throws: the pass rejects where it stands
                     THEN /\ flushes' = [flushes EXCEPT ![p] = RejectedPass]
                          /\ UNCHANGED <<localStorage, queueStatus,
                                         signalStatus>>
                     ELSE /\ flushes' = [flushes EXCEPT ![p] = DonePass]
                          /\ localStorage' =
                               saveJSON(localStorage, SIGNAL_QUEUE_KEY, keep)
                          /\ queueStatus' = Len(keep)
                          /\ signalStatus' =
                               IF Len(keep) = 0 /\ Len(f.pending) > 0
                                 THEN [msg |-> "all_synced"]
                                 ELSE signalStatus
  /\ UNCHANGED <<pagePc, now, scoreCache, settings, currentSpot, deviceToken,
                 apiOnline, lastHealthCheckAt, lastHealthLatencyMs,
                 dataStatus, networkStatus, sends, probes, loads,
                 loadScoreDisabled, flushCalls, hints, ticks, puts,
                 toggles,
                 call, caches, workers, controller,
                 reloads, storageFull>>

(* --------------------------- checkApiHealth --------------------------- *)
\* What GET /health can end in; has_data is payload.health.has_data.
HealthResponses ==
  {[kind |-> "ok", has_data |-> TRUE],
   [kind |-> "ok", has_data |-> FALSE],
   [kind |-> "http_error", has_data |-> FALSE],
   [kind |-> "network_error", has_data |-> FALSE]}

\* A probe that has returned: its locals are gone; history: the time at
\* which it completed (0: the document was unloaded first).
DoneProbe(time) == [pc |-> "done", started |-> 0, ended |-> time]

\* Lines 163-166: a call of checkApiHealth up to its await.
ProbeCall ==
  probes' = Append(probes, [pc |-> "await", started |-> now, ended |-> 0])

renderDataStatusFromHealth(has_data) ==
  IF has_data THEN "freshness" ELSE "no_metadata"

\* Line 166: what the awaited fetch gives checkApiHealth when the network
\* answers net: the response, or a rejection (Null), and the worker's
\* partitions afterwards.
HealthFetch(net) == PageFetch(caches, controller, HealthUrl, net)

\* The response checkApiHealth goes on with; a rejected fetch is a network
\* error.
HealthResponse(net) ==
  IF HealthFetch(net).response = Null
    THEN [kind |-> "network_error", has_data |-> FALSE]
    ELSE HealthFetch(net).response[1]

CheckApiHealthSettleKeepsLatency(p, net) ==
  /\ p \in 1..Len(probes)
  /\ probes[p].pc = "await"
  /\ probes' = [probes EXCEPT ![p] = DoneProbe(now)]
  /\ LET resp == HealthResponse(net)
     IN  /\ caches' = HealthFetch(net).caches
         /\ IF resp.kind = "ok"
              THEN /\ apiOnline' = TRUE
                   /\ lastHealthLatencyMs' = Some(now - probes[p].started)
                   /\ dataStatus' = renderDataStatusFromHealth(resp.has_data)
              ELSE /\ apiOnline' = FALSE
                   /\ lastHealthLatencyMs' = lastHealthLatencyMs
                   /\ dataStatus' = "api_offline"
  /\ lastHealthCheckAt' = Some(now)
  /\ now' = now + 1
  /\ networkStatus' = renderNetworkStatus(apiOnline', lastHealthCheckAt',
                                          lastHealthLatencyMs')
  /\ UNCHANGED <<pagePc, localStorage, scoreCache, signalQueue, settings,
                 currentSpot, deviceToken, signalStatus, queueStatus,
                 flushes, sends, loads, requests, loadScoreDisabled,
                 flushCalls, hints, ticks, puts, toggles, call, workers,
                 controller,
                 reloads, storageFull>>

CheckApiHealthSettleLatestStartedWins(p, net) ==
  /\ p \in 1..Len(probes)
  /\ probes[p].pc = "await"
  /\ probes' = [probes EXCEPT ![p] = DoneProbe(now)]
  /\ LET resp == HealthResponse(net)
         stale == p # Len(probes)
     IN  /\ caches' = HealthFetch(net).caches
         /\ IF stale
              THEN UNCHANGED <<apiOnline, lastHealthLatencyMs, dataStatus,
                               lastHealthCheckAt>>
            ELSE IF resp.kind = "ok"
              THEN /\ apiOnline' = TRUE
                   /\ lastHealthLatencyMs' = Some(now - probes[p].started)
                   /\ dataStatus' = renderDataStatusFromHealth(resp.has_data)
                   /\ lastHealthCheckAt' = Some(now)
              ELSE /\ apiOnline' = FALSE
                   /\ lastHealthLatencyMs' = Null
                   /\ dataStatus' = "api_offline"
                   /\ lastHealthCheckAt' = Some(now)
  /\ now' = now + 1
  /\ networkStatus' = renderNetworkStatus(apiOnline', lastHealthCheckAt',
                                          lastHealthLatencyMs')
  /\ UNCHANGED <<pagePc, localStorage, scoreCache, signalQueue, settings,
                 currentSpot, deviceToken, signalStatus, queueStatus,
                 flushes, sends, loads, requests, loadScoreDisabled,
                 flushCalls, hints, ticks, puts, toggles, call, workers,
                 controller, reloads, storageFull>>

\* Lines 167-181: the network answers the request of probe p with net
\* (through the controlling worker, if any) and checkApiHealth runs to its
\* end.  { cache: "no-store" } bypasses the HTTP cache, not the worker.
CheckApiHealthSettle(p, net) ==
  /\ p \in 1..Len(probes)
  /\ probes[p].pc = "await"
  /\ probes' = [probes EXCEPT ![p] = DoneProbe(now)]
  /\ LET resp == HealthResponse(net)
     IN  /\ caches' = HealthFetch(net).caches
         /\ IF resp.kind = "ok"
              THEN /\ apiOnline' = TRUE
                   /\ lastHealthLatencyMs' = Some(now - probes[p].started)
                   /\ dataStatus' = renderDataStatusFromHealth(resp.has_data)
              ELSE /\ apiOnline' = FALSE
                   /\ lastHealthLatencyMs' = Null
                   /\ dataStatus' = "api_offline"
  /\ lastHealthCheckAt' = Some(now)
  /\ now' = now + 1
  /\ networkStatus' = renderNetworkStatus(apiOnline', lastHealthCheckAt',
                                          lastHealthLatencyMs')
  /\ UNCHANGED <<pagePc, localStorage, scoreCache, signalQueue, settings,
                 currentSpot, deviceToken, signalStatus, queueStatus,
                 flushes, sends, loads, requests, loadScoreDisabled,
                 flushCalls, hints, ticks, puts, toggles, call, workers,
                 controller,
                 reloads, storageFull>>

(* ------------------------------ triggers ------------------------------ *)
\* Lines 78-127: initialize().  The map and admin wiring is left out; the
\* listeners and the interval it registers are the actions below.
Initialize ==
  /\ pagePc = "boot"
  /\ pagePc' = "running"
  /\ networkStatus' = renderNetworkStatus(apiOnline, lastHealthCheckAt,
                                          lastHealthLatencyMs)
  /\ FlushCall
  /\ queueStatus' = Len(signalQueue)
  /\ ProbeCall
  /\ UNCHANGED <<now, localStorage, scoreCache, signalQueue, settings,
                 currentSpot, deviceToken, apiOnline, lastHealthCheckAt,
                 lastHealthLatencyMs, signalStatus, dataStatus, sends, loads,
                 loadScoreDisabled, hints, ticks, puts,
                 toggles,
                 call, caches, workers, controller,
                 reloads, storageFull>>

OnNetworkHintTrustsBrowser(event) ==
  /\ pagePc = "running"
  /\ Events < MaxEvents
  /\ event \in {"online", "offline"}
  /\ hints' = hints + 1
  /\ apiOnline' = (event = "online")
  /\ FlushCall
  /\ ProbeCall
  /\ UNCHANGED <<pagePc, now, localStorage, scoreCache, signalQueue, settings,
                 currentSpot, deviceToken, lastHealthCheckAt,
                 lastHealthLatencyMs, signalStatus, queueStatus, dataStatus,
                 networkStatus, sends, loads, loadScoreDisabled, ticks, puts,
                 toggles, call, caches, workers, controller,
                 reloads, storageFull>>

\* Lines 157-161: onNetworkHint, the listener of "online" and "offline".
OnNetworkHint(event) ==
  /\ pagePc = "running"
  /\ Events < MaxEvents
  /\ event \in {"online", "offline"}
  /\ hints' = hints + 1
  /\ FlushCall
  /\ ProbeCall
  /\ UNCHANGED <<pagePc, now, localStorage, scoreCache, signalQueue, settings,
                 currentSpot, deviceToken, apiOnline, lastHealthCheckAt,
                 lastHealthLatencyMs, signalStatus, queueStatus, dataStatus,
                 networkStatus, sends, loads, loadScoreDisabled, ticks, puts,
                 toggles,
                 call, caches, workers, controller,
                 reloads, storageFull>>

IntervalCallbackAlsoFlushes ==
  /\ pagePc = "running"
  /\ Events < MaxEvents
  /\ ticks' = ticks + 1
  /\ FlushCall
  /\ ProbeCall
  /\ UNCHANGED <<pagePc, now, localStorage, scoreCache, signalQueue, settings,
                 currentSpot, deviceToken, apiOnline, lastHealthCheckAt,
                 lastHealthLatencyMs, signalStatus, queueStatus, dataStatus,
                 networkStatus, sends, loads, loadScoreDisabled, hints, puts,
                 toggles,
                 call, caches, workers, controller,
                 reloads, storageFull>>

\* Line 125: the callback of setInterval(checkApiHealth, 30000).
IntervalCallback ==
  /\ pagePc = "running"
  /\ Events < MaxEvents
  /\ ticks' = ticks + 1
  /\ ProbeCall
  /\ UNCHANGED <<pagePc, now, localStorage, scoreCache, signalQueue, settings,
                 currentSpot, deviceToken, apiOnline, lastHealthCheckAt,
                 lastHealthLatencyMs, signalStatus, queueStatus, dataStatus,
                 networkStatus, flushes, sends, loads, requests,
                 loadScoreDisabled, flushCalls, hints, puts,
                 toggles,
                 call, caches, workers, controller,
                 reloads, storageFull>>

\* Lines 84-87: the change listener of the signals-enabled checkbox.
SignalsEnabledChange(checked) ==
  /\ pagePc = "running"
  /\ checked # settings.signalsEnabled
  /\ Events < MaxEvents
  /\ toggles' = toggles + 1
  /\ settings' = [settings EXCEPT !.signalsEnabled = checked]
  \* a setItem that throws ends the listener after the assignment
  /\ localStorage' =
       IF saveJSONThrows(storageFull, localStorage, SETTINGS_KEY, settings')
         THEN localStorage
         ELSE saveJSON(localStorage, SETTINGS_KEY, settings')
  /\ UNCHANGED <<pagePc, now, scoreCache, signalQueue, currentSpot,
                 deviceToken, apiOnline, lastHealthCheckAt,
                 lastHealthLatencyMs, signalStatus, queueStatus, dataStatus,
                 networkStatus, flushes, sends, probes, loads, requests,
                 loadScoreDisabled, flushCalls, hints, ticks, puts,
                 call, caches, workers, controller,
                 reloads, storageFull>>

(* ----------------------------- loadScore ------------------------------ *)
\* The coordinate inputs: the cell an earlier session may have cached, and
\* an input that Number() turns into NaN.
LoadInputs ==
  {[valid |-> TRUE, lat |-> CellLat(1) + 1, lon |-> PilotLon - 1],
   [valid |-> FALSE, lat |-> 0, lon |-> 0]}

ScoreResponses ==
  {[kind |-> "ok", payload |-> Some(p)] : p \in ScorePayloads}
    \cup {[kind |-> "http_error", payload |-> Null],
          [kind |-> "network_error", payload |-> Null]}

renderScoreStatusNoProvenance(fromCache, cacheTime) == [msg |-> "live_score"]

\* Lines 681-685 of renderScore: the provenance line.
renderScoreStatus(fromCache, cacheTime) ==
  IF fromCache
    THEN [msg |-> "cache_used", stand |-> toLocal(cacheTime)]
    ELSE [msg |-> "live_score"]

\* Lines 671-679 of renderScore.
renderScoreDataStatus(data) ==
  IF data.has_data THEN "freshness" ELSE "no_metadata"

DoneLoad == [pc |-> "done", lat |-> 0, lon |-> 0, at |-> 0]

\* Lines 616-628: the click on load-score up to the awaited fetch.
LoadScoreClick(input) ==
  /\ pagePc = "running"
  /\ ~loadScoreDisabled
  /\ Events < MaxEvents
  /\ IF ~input.valid
       THEN /\ loads' = Append(loads, DoneLoad)
            /\ UNCHANGED <<now, loadScoreDisabled>>
       ELSE /\ loads' = Append(loads, [pc |-> "await", lat |-> input.lat,
                                       lon |-> input.lon, at |-> now])
            /\ loadScoreDisabled' = TRUE
            /\ now' = now + 1
  /\ UNCHANGED <<pagePc, localStorage, scoreCache, signalQueue, settings,
                 currentSpot, deviceToken, apiOnline, lastHealthCheckAt,
                 lastHealthLatencyMs, signalStatus, queueStatus, dataStatus,
                 networkStatus, flushes, sends, probes, requests,
                 flushCalls, hints, ticks, puts,
                 toggles,
                 call, caches, workers, controller,
                 reloads, storageFull>>

loadScoreEntrySwapsCoordinates(lat, lon, time, payload) ==
  [key |-> cacheKey(lon, lat), fetchedAt |-> time, payload |-> payload]

\* Lines 637-641: the entry loadScore hands to putScoreCache.
loadScoreEntry(lat, lon, time, payload) ==
  [key |-> cacheKey(lat, lon), fetchedAt |-> time, payload |-> payload]

\* Line 629: what the awaited fetch of load l gives loadScore when the
\* network answers net: the response, or a rejection (Null), and the
\* worker's partitions afterwards.
ScoreFetch(l, net) ==
  PageFetch(caches, controller,
            ScoreUrl(loads[l].lat, loads[l].lon, loads[l].at), net)

\* The response loadScore goes on with; a rejected fetch is a network error.
ScoreResponse(l, net) ==
  IF ScoreFetch(l, net).response = Null
    THEN [kind |-> "network_error", payload |-> Null]
    ELSE ScoreFetch(l, net).response[1]

LoadScoreSettleNoDataClearsSpot(l, net) ==
  /\ l \in 1..Len(loads)
  /\ loads[l].pc = "await"
  /\ LET resp == ScoreResponse(l, net)
     IN  /\ caches' = ScoreFetch(l, net).caches
         /\ IF resp.kind = "ok"
              THEN LET payload == resp.payload[1]
                       entry == loadScoreEntry(loads[l].lat, loads[l].lon,
                                               now, payload)
                       cache == putScoreCache(scoreCache, entry)
                       \* saveJSON throws inside the try: the catch
                       \* block finds the entry just put in memory
                       cached == findCachedScore(cache, loads[l].lat,
                                                 loads[l].lon)
                   IN  /\ dataStatus' = renderScoreDataStatus(payload)
                       /\ scoreCache' = cache
                       /\ IF saveJSONThrows(storageFull, localStorage,
                                            SCORE_CACHE_KEY, cache)
                            THEN /\ currentSpot' = Some(cached[1].payload)
                                 /\ signalStatus' =
                                      renderScoreStatus(TRUE,
                                                        Some(cached[1].fetchedAt))
                                 /\ UNCHANGED localStorage
                            ELSE /\ currentSpot' = Some(payload)
                                 /\ signalStatus' =
                                      renderScoreStatus(FALSE, Null)
                                 /\ localStorage' =
                                      saveJSON(localStorage, SCORE_CACHE_KEY,
                                               cache)
                       /\ puts' = puts + 1
                       /\ now' = now + 1
              ELSE LET cached == findCachedScore(scoreCache, loads[l].lat,
                                                 loads[l].lon)
                   IN  /\ IF cached # Null
                            THEN /\ currentSpot' = Some(cached[1].payload)
                                 /\ signalStatus' =
                                      renderScoreStatus(TRUE,
                                                        Some(cached[1].fetchedAt))
                                 /\ dataStatus' =
                                      renderScoreDataStatus(cached[1].payload)
                            ELSE /\ signalStatus' = [msg |-> "no_live_no_cache"]
                                 /\ currentSpot' = Null
                                 /\ UNCHANGED dataStatus
                       /\ UNCHANGED <<scoreCache, localStorage, puts, now>>
  /\ loads' = [loads EXCEPT ![l] = DoneLoad]
  /\ loadScoreDisabled' = FALSE
  /\ UNCHANGED <<pagePc, signalQueue, settings, deviceToken, apiOnline,
                 lastHealthCheckAt, lastHealthLatencyMs, queueStatus,
                 networkStatus, flushes, sends, probes, requests,
                 flushCalls, hints, ticks, toggles, call, workers,
                 controller,
                 reloads, storageFull>>

\* Lines 629-652: the network answers the score request of load l with net
\* (through the controlling worker, if any) and loadScore runs to its end.
LoadScoreSettle(l, net) ==
  /\ l \in 1..Len(loads)
  /\ loads[l].pc = "await"
  /\ LET resp == ScoreResponse(l, net)
     IN  /\ caches' = ScoreFetch(l, net).caches
         /\ IF resp.kind = "ok"
              THEN LET payload == resp.payload[1]
                       entry == loadScoreEntry(loads[l].lat, loads[l].lon,
                                               now, payload)
                       cache == putScoreCache(scoreCache, entry)
                       \* saveJSON throws inside the try: the catch
                       \* block finds the entry just put in memory
                       cached == findCachedScore(cache, loads[l].lat,
                                                 loads[l].lon)
                   IN  /\ dataStatus' = renderScoreDataStatus(payload)
                       /\ scoreCache' = cache
                       /\ IF saveJSONThrows(storageFull, localStorage,
                                            SCORE_CACHE_KEY, cache)
                            THEN /\ currentSpot' = Some(cached[1].payload)
                                 /\ signalStatus' =
                                      renderScoreStatus(TRUE,
                                                        Some(cached[1].fetchedAt))
                                 /\ UNCHANGED localStorage
                            ELSE /\ currentSpot' = Some(payload)
                                 /\ signalStatus' =
                                      renderScoreStatus(FALSE, Null)
                                 /\ localStorage' =
                                      saveJSON(localStorage, SCORE_CACHE_KEY,
                                               cache)
                       /\ puts' = puts + 1
                       /\ now' = now + 1
              ELSE LET cached == findCachedScore(scoreCache, loads[l].lat,
                                                 loads[l].lon)
                   IN  /\ IF cached # Null
                            THEN /\ currentSpot' = Some(cached[1].payload)
                                 /\ signalStatus' =
                                      renderScoreStatus(TRUE,
                                                        Some(cached[1].fetchedAt))
                                 /\ dataStatus' =
                                      renderScoreDataStatus(cached[1].payload)
                            ELSE /\ signalStatus' = [msg |-> "no_live_no_cache"]
                                 /\ UNCHANGED <<currentSpot, dataStatus>>
                       /\ UNCHANGED <<scoreCache, localStorage, puts, now>>
  /\ loads' = [loads EXCEPT ![l] = DoneLoad]
  /\ loadScoreDisabled' = FALSE
  /\ UNCHANGED <<pagePc, signalQueue, settings, deviceToken, apiOnline,
                 lastHealthCheckAt, lastHealthLatencyMs, queueStatus,
                 networkStatus, flushes, sends, probes, requests,
                 flushCalls, hints, ticks, toggles, call, workers,
                 controller,
                 reloads, storageFull>>

(* ----------------------------- sendSignal ----------------------------- *)
SignalTypes == {"calm", "noise"}

buildSignalAnySpot(spot, signalType, token, time) ==
  IF spot = Null
    THEN Null
    ELSE Some([spot_id |-> spot[1].spot_id, signal_type |-> signalType,
               device_token |-> token, timestamp |-> time])

\* Lines 688-699: buildSignal, null without a loaded spot or spot_id.
buildSignal(spot, signalType, token, time) ==
  IF spot = Null \/ spot[1].spot_id = ""
    THEN Null
    ELSE Some([spot_id |-> spot[1].spot_id, signal_type |-> signalType,
               device_token |-> token, timestamp |-> time])

sendSignalCatchAlwaysQueues(queue, signal, error) == Append(queue, signal)

\* Lines 716-723: the queue after the catch block of sendSignal.
sendSignalCatch(queue, signal, error) ==
  IF error.head = "cooldown:" THEN queue ELSE Append(queue, signal)

DoneSend == [pc |-> "done", signal |-> Null]

RejectedSend == [pc |-> "rejected", signal |-> Null]

SendSignalClickQueuesBehind(signalType) ==
  /\ pagePc = "running"
  /\ Events < MaxEvents
  /\ LET signal == buildSignal(currentSpot, signalType, deviceToken, now)
         id == Len(sends) + 1
     IN  IF ~settings.signalsEnabled
           THEN /\ signalStatus' = [msg |-> "signals_disabled"]
                /\ sends' = Append(sends, DoneSend)
                /\ UNCHANGED <<now, requests, signalQueue, localStorage>>
         ELSE IF signal = Null
           THEN /\ signalStatus' = [msg |-> "load_spot_first"]
                /\ sends' = Append(sends, DoneSend)
                /\ UNCHANGED <<now, requests, signalQueue, localStorage>>
         ELSE IF Len(signalQueue) > 0
           THEN /\ sends' = Append(sends, DoneSend)
                /\ signalQueue' = Append(signalQueue, signal[1])
                /\ localStorage' =
                     saveJSON(localStorage, SIGNAL_QUEUE_KEY, signalQueue')
                /\ now' = now + 1
                /\ UNCHANGED <<requests, signalStatus>>
         ELSE /\ sends' = Append(sends, [pc |-> "await", signal |-> signal])
              /\ requests' = requests \cup {NewRequest("send", id, signal[1])}
              /\ now' = now + 1
              /\ UNCHANGED <<signalStatus, signalQueue, localStorage>>
  /\ UNCHANGED <<pagePc, scoreCache, settings,
                 currentSpot, deviceToken, apiOnline, lastHealthCheckAt,
                 lastHealthLatencyMs, queueStatus, dataStatus, networkStatus,
                 flushes, probes, loads, loadScoreDisabled, flushCalls,
                 hints, ticks, puts, toggles, call, caches, workers,
                 controller, reloads, storageFull>>

\* Lines 701-714: the click on a signal button up to the awaited submission.
SendSignalClick(signalType) ==
  /\ pagePc = "running"
  /\ Events < MaxEvents
  /\ LET signal == buildSignal(currentSpot, signalType, deviceToken, now)
         id == Len(sends) + 1
     IN  IF ~settings.signalsEnabled
           THEN /\ signalStatus' = [msg |-> "signals_disabled"]
                /\ sends' = Append(sends, DoneSend)
                /\ UNCHANGED <<now, requests>>
         ELSE IF signal = Null
           THEN /\ signalStatus' = [msg |-> "load_spot_first"]
                /\ sends' = Append(sends, DoneSend)
                /\ UNCHANGED <<now, requests>>
         ELSE /\ sends' = Append(sends, [pc |-> "await", signal |-> signal])
              /\ requests' = requests \cup {NewRequest("send", id, signal[1])}
              /\ now' = now + 1
              /\ UNCHANGED signalStatus
  /\ UNCHANGED <<pagePc, localStorage, scoreCache, signalQueue, settings,
                 currentSpot, deviceToken, apiOnline, lastHealthCheckAt,
                 lastHealthLatencyMs, queueStatus, dataStatus, networkStatus,
                 flushes, probes, loads, loadScoreDisabled, flushCalls,
                 hints, ticks, puts,
                 toggles,
                 call, caches, workers, controller,
                 reloads, storageFull>>

\* Lines 714-726: the submission of send k settles with resp.
SendSignalSettle(k, resp) ==
  /\ k \in 1..Len(sends)
  /\ sends[k].pc = "await"
  /\ RequestsOf("send", k) # {}
  /\ LET signal == sends[k].signal[1]
         error == submitSignal(resp)
         \* saveJSON throws in the catch block, after the push
         rejects == /\ error.threw
                    /\ error.head # "cooldown:"
                    /\ saveJSONThrows(storageFull, localStorage,
                                      SIGNAL_QUEUE_KEY,
                                      sendSignalCatch(signalQueue, signal,
                                                      error))
     IN  /\ requests' = requests \ {NewRequest("send", k, signal)}
         /\ sends' = [sends EXCEPT ![k] =
                        IF rejects THEN RejectedSend ELSE DoneSend]
         /\ IF ~error.threw
              THEN /\ signalStatus' = [msg |-> "saved", type |-> signal.signal_type]
                   /\ UNCHANGED <<signalQueue, localStorage, queueStatus, flushes>>
            ELSE IF error.head = "cooldown:"
              THEN /\ signalStatus' = [msg |-> "locked_until",
                                     until |-> toLocal(error.tail)]
                   /\ signalQueue' = sendSignalCatch(signalQueue, signal, error)
                   /\ UNCHANGED <<localStorage, queueStatus, flushes>>
            ELSE /\ signalQueue' = sendSignalCatch(signalQueue, signal, error)
                 /\ IF rejects
                      THEN UNCHANGED <<localStorage, signalStatus, queueStatus>>
                      ELSE /\ localStorage' =
                                saveJSON(localStorage, SIGNAL_QUEUE_KEY,
                                         signalQueue')
                           /\ signalStatus' =
                                [msg |-> "queued", type |-> signal.signal_type]
                           /\ queueStatus' = Len(signalQueue')
                 \* history: the passes in progress see an enqueue
                 /\ flushes' = [p \in 1..Len(flushes) |->
                      IF flushes[p].pc = "await"
                        THEN [flushes[p] EXCEPT !.enq = Append(@, signal)]
                        ELSE flushes[p]]
  /\ UNCHANGED <<pagePc, now, scoreCache, settings, currentSpot, deviceToken,
                 apiOnline, lastHealthCheckAt, lastHealthLatencyMs,
                 dataStatus, networkStatus, probes, loads, loadScoreDisabled,
                 flushCalls, hints, ticks, puts,
                 toggles,
                 call, caches, workers, controller,
                 reloads, storageFull>>

(* --------------------------- specification ---------------------------- *)
PriorStorages == {StorageWith(<<>>, PriorQueue(k)) : k \in 0..MaxPriorQueue}

Init == \E store0 \in PriorStorages : InitWith(store0, "uuid-a")

\* The queue side of the page: the triggers, the score load that makes a
\* spot current, the sends and the flush passes.  The health probes the
\* triggers start stay in flight here; SpecHealth settles them.
Next ==
  \/ Initialize
  \/ \E event \in {"online", "offline"} : OnNetworkHint(event)
  \/ \E checked \in BOOLEAN : SignalsEnabledChange(checked)
  \/ \E input \in LoadInputs : LoadScoreClick(input)
  \/ \E l \in 1..Len(loads), resp \in ScoreResponses : LoadScoreSettle(l, resp)
  \/ \E signalType \in SignalTypes : SendSignalClick(signalType)
  \/ \E k \in 1..Len(sends), resp \in SignalResponses : SendSignalSettle(k, resp)
  \/ \E p \in 1..Len(flushes), resp \in SignalResponses : FlushSettle(p, resp)

Spec == Init /\ [][Next]_vars

\* The health side of the page: the triggers, the interval, the probes and
\* the flush passes the triggers start.
HealthNext ==
  \/ Initialize
  \/ \E event \in {"online", "offline"} : OnNetworkHint(event)
  \/ IntervalCallback
  \/ \E p \in 1..Len(probes), resp \in HealthResponses :
       CheckApiHealthSettle(p, resp)
  \/ \E p \in 1..Len(flushes), resp \in SignalResponses : FlushSettle(p, resp)

\* What the worker's runtime partition holds of /api/health when the page
\* starts: nothing, or the 2xx answer of an earlier visit.
HealthRuntimes ==
  {{}, {[url |-> HealthUrl, response |-> [kind |-> "ok", has_data |-> TRUE]]}}

\* The health side starts from a queue of at most one entry an earlier
\* session left, with or without a controlling worker.
HealthInit ==
  \E k \in 0..1 :
    /\ PageInit(StorageWith(<<>>, PriorQueue(k)), "uuid-a")
    /\ (NoWorker \/ \E runtime \in HealthRuntimes : WorkerControls(runtime))

SpecHealth == HealthInit /\ [][HealthNext]_vars

(* ------------------------ signal queue properties --------------------- *)
StoredQueue == loadJSON(localStorage, SIGNAL_QUEUE_KEY, <<>>)

\* The step is the one in which pass p returns, its last submission
\* settling with resp.
FlushCompletes(p, resp) == FlushSettle(p, resp) /\ flushes'[p].pc = "done"

\* How the submissions of pass p ended, given that the last one ends in resp.
OutcomesWith(p, resp) == Append(flushes[p].outcomes, Outcome(resp))

\* The entries of pending whose outcome is in kinds, in their order.
EntriesWith(pending, outcomes, kinds) ==
  LET idx == SelectSeq([j \in 1..Len(pending) |-> j],
                       LAMBDA j : outcomes[j] \in kinds)
  IN  [n \in 1..Len(idx) |-> pending[idx[n]]]

\* C1: when a flush pass returns, no entry whose submission it saw rejected
\* with a cooldown response is in the queue any more (so no later pass can
\* submit it again), in memory and in storage.
C1_CooldownDropped ==
  [][\A p \in 1..Len(flushes), resp \in SignalResponses :
       FlushCompletes(p, resp) =>
         \A s \in Range(EntriesWith(flushes[p].pending,
                                    OutcomesWith(p, resp), {"cooldown"})) :
           s \notin Range(signalQueue') /\ s \notin Range(StoredQueue')]_vars

\* C2: a signal that sendSignal appended while pass p was suspended is not
\* among the entries p submits and is still in the queue, in memory and in
\* storage, when p returns.
C2_EnqueuedDuringFlushKept ==
  [][\A p \in 1..Len(flushes), resp \in SignalResponses :
       FlushCompletes(p, resp) =>
         \A s \in Range(flushes[p].enq) :
           /\ s \notin Range(flushes[p].pending)
           /\ s \in Range(signalQueue')
           /\ s \in Range(StoredQueue')]_vars

\* C3: a pass in progress has exactly one submission in flight, that of
\* the entry at its position i of the snapshot; all entries before i have
\* settled, none after i has been submitted, and the position only ever
\* moves to the next entry.
C3_FifoOneAtATime ==
  /\ [](\A p \in 1..Len(flushes) :
          flushes[p].pc = "await" =>
            /\ flushes[p].i \in 1..Len(flushes[p].pending)
            /\ RequestsOf("flush", p) =
                 {[op |-> "flush", id |-> p,
                   signal |-> flushes[p].pending[flushes[p].i]]}
            /\ Len(flushes[p].outcomes) = flushes[p].i - 1)
  /\ [][\A p \in 1..Len(flushes) :
          flushes[p].pc = "await" =>
            \/ /\ flushes[p].i = Len(flushes[p].pending)
               /\ flushes'[p].pc = "done"
            \/ /\ flushes'[p].pc = "await"
               /\ flushes'[p].pending = flushes[p].pending
               /\ flushes'[p].i \in {flushes[p].i, flushes[p].i + 1}]_vars

\* A pass over at least two entries awaits its second submission after the
\* first one failed.
C3_Witness ==
  \E p \in 1..Len(flushes) :
    /\ flushes[p].pc = "await"
    /\ flushes[p].i = 2
    /\ flushes[p].outcomes = <<"failed">>
    /\ RequestsOf("flush", p) # {}

\* C4: when a pass during which nothing was enqueued returns, the queue is
\* exactly the snapshot entries whose submission failed for another reason
\* than cooldown, in their order.
C4_OnlyTransientFailuresKept ==
  [][\A p \in 1..Len(flushes), resp \in SignalResponses :
       (FlushCompletes(p, resp) /\ flushes[p].enq = <<>>) =>
         signalQueue' = EntriesWith(flushes[p].pending,
                                    OutcomesWith(p, resp), {"failed"})]_vars

\* C5: when the immediate submission of sendSignal settles, the queue and
\* its stored copy are unchanged on success; on a cooldown rejection they
\* are unchanged too and the status line shows the server's next-allowed
\* time; on any other failure the signal is appended at the tail and the
\* queue is persisted.
C5_SendOutcome ==
  [][\A k \in 1..Len(sends), resp \in SignalResponses :
       SendSignalSettle(k, resp) =>
         IF resp.kind = "ok"
           THEN /\ signalQueue' = signalQueue
                /\ StoredQueue' = StoredQueue
                /\ signalStatus'.msg = "saved"
         ELSE IF resp.kind = "cooldown"
           THEN /\ signalQueue' = signalQueue
                /\ StoredQueue' = StoredQueue
                /\ signalStatus' = [msg |-> "locked_until",
                                    until |-> toLocal(resp.next_allowed_at)]
         ELSE /\ signalQueue' = Append(signalQueue, sends[k].signal[1])
              /\ StoredQueue' = signalQueue']_vars

\* A send that failed was queued behind the entries an earlier session left.
C5_Witness ==
  /\ signalStatus.msg = "queued"
  /\ Len(signalQueue) >= 2
  /\ signalQueue[1] = PriorSignal(1)
  /\ signalQueue[Len(signalQueue)].timestamp >= SessionStart
  /\ StoredQueue = signalQueue

(* ------------------------- trigger properties ------------------------- *)
\* C6: the settling of a health probe with a 2xx answer calls
\* flushSignalQueue, and the settling of a failed probe does not.
C6_ProbeSuccessFlushes ==
  [][\A p \in 1..Len(probes), resp \in HealthResponses :
       CheckApiHealthSettle(p, resp) =>
         IF resp.kind = "ok"
           THEN flushCalls' = flushCalls + 1
           ELSE flushCalls' = flushCalls]_vars

\* C7: flushSignalQueue has been called once by initialize and once per
\* online/offline event and never otherwise; the interval callback calls
\* it never and starts no pass.
C7_FlushTriggers ==
  /\ [](flushCalls = (IF pagePc = "running" THEN 1 ELSE 0) + hints)
  /\ [][ticks' # ticks =>
          flushCalls' = flushCalls /\ flushes' = flushes]_vars

\* The startup flush and the flush of one online/offline event each started
\* a pass, and an interval callback has run.
C7_Witness ==
  /\ pagePc = "running"
  /\ hints = 1
  /\ ticks = 1
  /\ flushCalls = 2
  /\ Len(flushes) = 2

\* C16: apiOnline changes only in the step in which a health probe
\* completes: to true only when the probe was given a 2xx response, to
\* false only when its request failed; an online/offline event leaves
\* apiOnline as it is and starts one more probe.
C16_BeliefOnlyFromProbes ==
  /\ [][apiOnline' # apiOnline =>
          \E p \in 1..Len(probes), net \in HealthResponses :
            /\ CheckApiHealthSettle(p, net)
            /\ apiOnline' = (HealthResponse(net).kind = "ok")]_vars
  /\ [][hints' # hints =>
          /\ apiOnline' = apiOnline
          /\ Len(probes') = Len(probes) + 1
          /\ probes'[Len(probes')].pc = "await"]_vars

\* After a probe had set the belief to online, an online/offline event was
\* handled, its probe still in flight, and the belief is still online.
C16_Witness ==
  /\ apiOnline
  /\ hints = 1
  /\ \E p \in 1..Len(probes) : probes[p].pc = "done"
  /\ probes[Len(probes)].pc = "await"

\* C17: a probe whose network request did not get a 2xx answer from the
\* liveness endpoint leaves apiOnline false when it completes.
C17_OnlineOnlyOverNetwork ==
  [][\A p \in 1..Len(probes), net \in HealthResponses :
       (CheckApiHealthSettle(p, net) /\ net.kind # "ok") =>
         ~apiOnline']_vars

(* ===================== the score cache on its own ===================== *)
CacheFills == {0, MAX_CACHE_ITEMS - 1, MAX_CACHE_ITEMS}

PutCells == {1, 2, MAX_CACHE_ITEMS, MAX_CACHE_ITEMS + 1, MAX_CACHE_ITEMS + 2}

CacheInit ==
  \E n \in CacheFills : InitWith(StorageWith(PriorCache(n), <<>>), "uuid-a")

\* Lines 637-641 with 607-610: one call of putScoreCache with the entry
\* loadScore builds for the cell and the payload the server answered.
PutScoreCacheCall(cell, payload) ==
  /\ puts < MaxPuts
  /\ LET entry == [key |-> cacheKey(CellLat(cell), PilotLon),
                   fetchedAt |-> now,
                   payload |-> payload]
         cache == putScoreCache(scoreCache, entry)
     IN  /\ scoreCache' = cache
         /\ localStorage' = saveJSON(localStorage, SCORE_CACHE_KEY, cache)
  /\ now' = now + 1
  /\ puts' = puts + 1
  /\ UNCHANGED <<pagePc, signalQueue, settings, currentSpot, deviceToken,
                 apiOnline, lastHealthCheckAt, lastHealthLatencyMs,
                 signalStatus, queueStatus, dataStatus, networkStatus,
                 flushes, sends, probes, loads, requests,
                 loadScoreDisabled, flushCalls, hints, ticks,
                 toggles,
                 call, caches, workers, controller,
                 reloads, storageFull>>

\* Coordinates looked up: inside the cells 1 and 2, in the cell south of
\* cell 1 that is never cached, and in the longitude cell east of them.
FindLats == {CellLat(1) - 6, CellLat(1) - 5, CellLat(1) + 4, CellLat(1) + 5}

FindLons == {PilotLon, PilotLon + 4, PilotLon + 5}

FindCachedScoreCallPromotes(lat, lon) ==
  LET found == findCachedScore(scoreCache, lat, lon)
      cache == IF found = Null THEN scoreCache
               ELSE putScoreCache(scoreCache, found[1])
  IN  /\ call' = [fn |-> "findCachedScore", lat |-> lat, lon |-> lon,
                  result |-> found]
      /\ scoreCache' = cache
      /\ localStorage' = saveJSON(localStorage, SCORE_CACHE_KEY, cache)
      /\ UNCHANGED <<pagePc, now, signalQueue, settings,
                     currentSpot, deviceToken, apiOnline, lastHealthCheckAt,
                     lastHealthLatencyMs, signalStatus, queueStatus,
                     dataStatus, networkStatus, flushes, sends, probes, loads,
                     requests, loadScoreDisabled, flushCalls, hints, ticks,
                     toggles, puts, caches, workers, controller,
                     reloads, storageFull>>

\* Lines 612-614: one call of findCachedScore.
FindCachedScoreCall(lat, lon) ==
  /\ call' = [fn |-> "findCachedScore", lat |-> lat, lon |-> lon,
              result |-> findCachedScore(scoreCache, lat, lon)]
  /\ UNCHANGED <<pagePc, now, localStorage, scoreCache, signalQueue, settings,
                 currentSpot, deviceToken, apiOnline, lastHealthCheckAt,
                 lastHealthLatencyMs, signalStatus, queueStatus, dataStatus,
                 networkStatus, flushes, sends, probes, loads, requests,
                 loadScoreDisabled, flushCalls, hints, ticks, toggles, puts,
                 caches, workers, controller,
                 reloads, storageFull>>

CacheNext == \E cell \in PutCells, payload \in ScorePayloads :
               PutScoreCacheCall(cell, payload)

\* Lookups between puts, on the cache of a first visit or on the cells 1
\* and 2 an earlier session cached.
FindInit ==
  \E n \in {0, 2} : InitWith(StorageWith(PriorCache(n), <<>>), "uuid-a")

FindNext ==
  \/ \E cell \in 1..3, payload \in ScorePayloads :
       PutScoreCacheCall(cell, payload)
  \/ \E lat \in FindLats, lon \in FindLons : FindCachedScoreCall(lat, lon)

SpecFind == FindInit /\ [][FindNext]_vars

SpecCache == CacheInit /\ [][CacheNext]_vars

(* ----------------------- score cache properties ----------------------- *)
Keys(cache) == {cache[i].key : i \in 1..Len(cache)}

StoredCache == loadJSON(localStorage, SCORE_CACHE_KEY, <<>>)

\* C8: the score cache never holds more than 50 entries, in memory and in
\* storage, whatever puts were made.
C8_CacheBound ==
  /\ Len(scoreCache) <= MAX_CACHE_ITEMS
  /\ localStorage[SCORE_CACHE_KEY].kind = "json"
  /\ Len(StoredCache) <= MAX_CACHE_ITEMS

\* A put of a 51st distinct cell has been made into a full cache.
C8_Witness ==
  /\ puts > 0
  /\ Len(scoreCache) = MAX_CACHE_ITEMS
  /\ Len(StoredCache) = MAX_CACHE_ITEMS
  /\ scoreCache[1].key = cacheKey(CellLat(MAX_CACHE_ITEMS + 1), PilotLon)

\* C9: a put of a new key into a cache of 50 entries evicts exactly the
\* tail, which is the entry inserted or promoted longest ago, and the other
\* 49 entries follow the new head in their old order.
C9_EvictsTail ==
  [][(/\ puts' = puts + 1
      /\ Len(scoreCache) = MAX_CACHE_ITEMS
      /\ scoreCache'[1].key \notin Keys(scoreCache))
     => /\ Len(scoreCache') = MAX_CACHE_ITEMS
        /\ SubSeq(scoreCache', 2, MAX_CACHE_ITEMS)
             = SubSeq(scoreCache, 1, MAX_CACHE_ITEMS - 1)
        /\ Keys(scoreCache) \ Keys(scoreCache')
             = {scoreCache[MAX_CACHE_ITEMS].key}
        /\ \A i \in 1..MAX_CACHE_ITEMS :
             scoreCache[MAX_CACHE_ITEMS].fetchedAt <= scoreCache[i].fetchedAt
        /\ StoredCache' = scoreCache']_vars

\* After a promotion of the oldest cell, a new cell evicted the cell that
\* had then become the oldest (cell 2), and the promoted cell 1 stayed.
C9_Witness ==
  /\ puts >= 2
  /\ Len(scoreCache) = MAX_CACHE_ITEMS
  /\ scoreCache[1].key = cacheKey(CellLat(MAX_CACHE_ITEMS + 1), PilotLon)
  /\ scoreCache[2].key = cacheKey(CellLat(1), PilotLon)
  /\ cacheKey(CellLat(2), PilotLon) \notin Keys(scoreCache)

KeysDistinct(cache) ==
  \A i, j \in 1..Len(cache) : cache[i].key = cache[j].key => i = j

\* C10: no two entries share a key; a put of a key that is present replaces
\* the old entry by the new one at the head and keeps the number of entries.
C10_ReplaceAndPromote ==
  /\ [](KeysDistinct(scoreCache) /\ KeysDistinct(StoredCache))
  /\ [][(puts' = puts + 1 /\ scoreCache'[1].key \in Keys(scoreCache))
        => /\ Len(scoreCache') = Len(scoreCache)
           /\ scoreCache'[1].fetchedAt = now
           /\ Tail(scoreCache')
                = SelectSeq(scoreCache,
                            LAMBDA it : it.key # scoreCache'[1].key)]_vars

\* Cell 2, deep in a full cache, was put again with another payload.
C10_Witness ==
  /\ puts > 0
  /\ Len(scoreCache) = MAX_CACHE_ITEMS
  /\ scoreCache[1].key = cacheKey(CellLat(2), PilotLon)
  /\ scoreCache[1].payload # PriorPayload
  /\ scoreCache[1].fetchedAt >= SessionStart


(* ======================= cache key and lookup ========================= *)
\* Coordinates a caller can pass, in units of 0.00001 degree: around the
\* pilot spot and on both sides of the equator and of the prime meridian.
KeyLats == {-6, -5, -4, -1, 0, 1, 4, 5, 6, PilotLat - 1, PilotLat,
            PilotLat + 1, PilotLat + 4, PilotLat + 5, PilotLat + 100}

KeyLons == {-5, -1, 0, 1, 5, PilotLon - 5, PilotLon - 1, PilotLon,
            PilotLon + 1, PilotLon + 4}

\* Lines 603-605: one call of cacheKey.
CacheKeyCall(lat, lon) ==
  /\ call' = [fn |-> "cacheKey", lat |-> lat, lon |-> lon,
              result |-> cacheKey(lat, lon)]
  /\ UNCHANGED <<pagePc, now, localStorage, scoreCache, signalQueue, settings,
                 currentSpot, deviceToken, apiOnline, lastHealthCheckAt,
                 lastHealthLatencyMs, signalStatus, queueStatus, dataStatus,
                 networkStatus, flushes, sends, probes, loads, requests,
                 loadScoreDisabled, flushCalls, hints, ticks, toggles, puts,
                 caches, workers, controller,
                 reloads, storageFull>>

KeyInit == InitWith(EmptyStorage, "uuid-a")

KeyNext == \E lat \in KeyLats, lon \in KeyLons : CacheKeyCall(lat, lon)

SpecKey == KeyInit /\ [][KeyNext]_vars

\* The coordinate x rounded to 4 decimal places, as a number in units of
\* 0.0001 degree.
Round4(x) == IF x < 0 THEN -((-x + 5) \div 10) ELSE (x + 5) \div 10

\* C11: two calls of cacheKey give the same key exactly when the
\* latitudes round to the same 4-decimal value and the longitudes round to
\* the same 4-decimal value.
C11_SameKeyIffSameCell ==
  [][(call.fn = "cacheKey" /\ call'.fn = "cacheKey") =>
       ((call'.result = call.result) <=>
          (/\ Round4(call'.lat) = Round4(call.lat)
           /\ Round4(call'.lon) = Round4(call.lon)))]_vars


\* C12: findCachedScore returns not-found exactly when no entry has the key
\* of the coordinates; what it returns is an entry of the cache with
\* exactly that key, so its cell is the cell the coordinates round to.
C12_ExactKeyLookup ==
  [][\A lat \in FindLats, lon \in FindLons :
       FindCachedScoreCall(lat, lon) =>
         LET found == call'.result IN
           /\ (found = Null) <=> (cacheKey(lat, lon) \notin Keys(scoreCache))
           /\ found # Null =>
                /\ found[1] \in Range(scoreCache)
                /\ found[1].key = cacheKey(lat, lon)
                /\ found[1].key[1].mag = Abs(Round4(lat))
                /\ found[1].key[2].mag = Abs(Round4(lon))]_vars

\* A lookup inside cell 1 hit the entry of cell 1 while the neighbouring
\* cell 2 was cached too.
C12_Witness ==
  /\ call.fn = "findCachedScore"
  /\ cacheKey(CellLat(2), PilotLon) \in Keys(scoreCache)
  /\ call.lat = CellLat(1) + 4
  /\ call.lon = PilotLon + 4
  /\ call.result # Null
  /\ call.result[1].key = cacheKey(CellLat(1), PilotLon)


(* ========================== loading a score =========================== *)
\* Coordinate inputs: two points of cell 1, a point of the neighbouring
\* cell 2, and an input that Number() turns into NaN.
ScoreInputs ==
  {[valid |-> TRUE, lat |-> CellLat(1) + 1, lon |-> PilotLon - 1],
   [valid |-> TRUE, lat |-> CellLat(1) + 4, lon |-> PilotLon + 1],
   [valid |-> TRUE, lat |-> CellLat(2), lon |-> PilotLon],
   [valid |-> FALSE, lat |-> 0, lon |-> 0]}

\* new Date() is the wall clock in milliseconds: a later reading can equal
\* an earlier one (same millisecond, or the clock was set back).
ClockRepeats ==
  /\ pagePc = "running"
  /\ now > SessionStart
  /\ now' = now - 1
  /\ UNCHANGED <<pagePc, localStorage, scoreCache, signalQueue, settings,
                 currentSpot, deviceToken, apiOnline, lastHealthCheckAt,
                 lastHealthLatencyMs, signalStatus, queueStatus, dataStatus,
                 networkStatus, flushes, sends, probes, loads, requests,
                 loadScoreDisabled, flushCalls, hints, ticks, toggles, puts,
                 call, caches, workers, controller,
                 reloads, storageFull>>

\* The page starts with the cache of an earlier session (none, cell 1, or
\* cells 1 and 2), with or without a controlling worker.
LoadInit ==
  \E n \in 0..2 :
    /\ PageInit(StorageWith(PriorCache(n), <<>>), "uuid-a")
    /\ (NoWorker \/ WorkerControls({}))

LoadNext ==
  \/ Initialize
  \/ \E input \in ScoreInputs : LoadScoreClick(input)
  \/ \E l \in 1..Len(loads), net \in ScoreResponses : LoadScoreSettle(l, net)
  \/ ClockRepeats

SpecLoad == LoadInit /\ [][LoadNext]_vars


\* C13: when the fetch of a load resolves with a 2xx answer, loadScore
\* shows the payload as a live result, makes it the current spot and puts
\* at the head of the cache, in memory and in storage, an entry with the
\* rounded coordinates of the request as key and the payload unchanged;
\* the lookup for the coordinates then returns that entry.
C13_LiveScoreCached ==
  [][\A l \in 1..Len(loads), net \in ScoreResponses :
       (LoadScoreSettle(l, net) /\ ScoreResponse(l, net).kind = "ok") =>
         LET payload == ScoreResponse(l, net).payload[1]
             lat == loads[l].lat
             lon == loads[l].lon
         IN  /\ signalStatus' = [msg |-> "live_score"]
             /\ currentSpot' = Some(payload)
             /\ Len(scoreCache') >= 1
             /\ scoreCache'[1].payload = payload
             /\ scoreCache'[1].key = cacheKey(lat, lon)
             /\ scoreCache'[1].key[1].mag = Abs(Round4(lat))
             /\ scoreCache'[1].key[2].mag = Abs(Round4(lon))
             /\ findCachedScore(scoreCache', lat, lon) = Some(scoreCache'[1])
             /\ StoredCache' = scoreCache']_vars

\* A live load of a point of cell 1 replaced the entry an earlier session
\* had cached for that cell, cell 2 staying behind it.
C13_Witness ==
  /\ signalStatus = [msg |-> "live_score"]
  /\ currentSpot # Null
  /\ Len(scoreCache) = 2
  /\ scoreCache[1].key = cacheKey(CellLat(1), PilotLon)
  /\ scoreCache[1].fetchedAt >= SessionStart
  /\ scoreCache[2] = PriorEntry(2)

\* C14: when the fetch of a load rejects or resolves with a non-2xx answer,
\* loadScore returns normally and leaves the cache unchanged, in memory
\* and in storage; if the cache has an entry with the key of the request
\* it shows that entry's payload marked as cached with the entry's
\* fetchedAt, else it shows the no-data message.
C14_FallbackToCache ==
  [][\A l \in 1..Len(loads), net \in ScoreResponses :
       (LoadScoreSettle(l, net) /\ ScoreResponse(l, net).kind # "ok") =>
         LET key == cacheKey(loads[l].lat, loads[l].lon)
             hits == {i \in 1..Len(scoreCache) : scoreCache[i].key = key}
         IN  /\ scoreCache' = scoreCache
             /\ StoredCache' = StoredCache
             /\ loads'[l].pc = "done"
             /\ ~loadScoreDisabled'
             /\ \A i \in hits :
                  /\ currentSpot' = Some(scoreCache[i].payload)
                  /\ signalStatus' =
                       [msg |-> "cache_used",
                        stand |-> toLocal(Some(scoreCache[i].fetchedAt))]
             /\ hits = {} =>
                  /\ signalStatus' = [msg |-> "no_live_no_cache"]
                  /\ currentSpot' = currentSpot]_vars

\* A failed load of a point of cell 1 showed the entry an earlier session
\* had cached for the cell, with that session's fetch time.
C14_Witness ==
  /\ signalStatus = [msg |-> "cache_used",
                     stand |-> toLocal(Some(PriorEntry(1).fetchedAt))]
  /\ currentSpot = Some(PriorEntry(1).payload)
  /\ Len(loads) >= 1
  /\ scoreCache = PriorCache(2)

\* C15: a load ends with the live-score line only if the network answered
\* that very request with a 2xx response, whose payload is the one shown.
C15_LiveMeansFromNetwork ==
  [][\A l \in 1..Len(loads), net \in ScoreResponses :
       (LoadScoreSettle(l, net) /\ signalStatus'.msg = "live_score") =>
         /\ net.kind = "ok"
         /\ currentSpot' = net.payload]_vars


(* ===================== service worker lifecycle ======================= *)
\* The variables of the page, which the worker does not touch.
pageVars == <<pagePc, now, localStorage, scoreCache, signalQueue, settings,
              currentSpot, deviceToken, apiOnline, lastHealthCheckAt,
              lastHealthLatencyMs, signalStatus, queueStatus, dataStatus,
              networkStatus, flushes, sends, probes, loads, requests,
              loadScoreDisabled, flushCalls, hints, ticks, toggles, puts,
              reloads, storageFull>>

Names(cs) == Range(cachesKeys(cs))

\* The entries of partition name, none if it does not exist.
EntriesOf(cs, name) ==
  UNION {cs[i].entries : i \in {k \in 1..Len(cs) : cs[k].name = name}}

\* No worker of the registration is installing, waiting or activating: the
\* browser runs the jobs of a registration one after the other.
RegistrationIdle ==
  \A v \in 1..Len(workers) : workers[v].state \in {"activated", "redundant"}

\* pwa.js line 4 (or the browser's update check): the script of the next
\* release is registered and its install event is dispatched.
Register ==
  /\ Len(workers) < MaxVersions
  /\ RegistrationIdle
  /\ workers' = Append(workers,
                       [state |-> "installing", pc |-> "open", stale |-> {}])
  /\ UNCHANGED <<pageVars, call, caches, controller>>

\* Line 131, caches.open(CORE_CACHE) of the install listener of worker v.
InstallOpen(v) ==
  /\ v \in 1..Len(workers)
  /\ workers[v].pc = "open"
  /\ caches' = cachesOpen(caches, CORE_CACHE(v))
  /\ workers' = [workers EXCEPT ![v].pc = "addAll"]
  /\ UNCHANGED <<pageVars, call, controller>>

InstallAddAllIgnoresFailures(v, failed) ==
  /\ v \in 1..Len(workers)
  /\ workers[v].pc = "addAll"
  /\ failed \subseteq CORE_ASSETS
  /\ caches' = [i \in 1..Len(caches) |->
                  IF caches[i].name = CORE_CACHE(v)
                    THEN [caches[i] EXCEPT !.entries =
                            {e \in CoreEntries : e.url.path \notin failed}]
                    ELSE caches[i]]
  /\ workers' = [workers EXCEPT ![v].pc = "skipWaiting"]
  /\ UNCHANGED <<pageVars, call, controller>>

\* Line 131, cache.addAll(CORE_ASSETS): failed are the assets whose fetch
\* fails or answers non-2xx.  addAll stores all of them or none; when it
\* rejects, the promise given to waitUntil rejects, the install fails and
\* the worker becomes redundant.
InstallAddAll(v, failed) ==
  /\ v \in 1..Len(workers)
  /\ workers[v].pc = "addAll"
  /\ failed \subseteq CORE_ASSETS
  /\ IF failed = {}
       THEN /\ caches' = [i \in 1..Len(caches) |->
                            IF caches[i].name = CORE_CACHE(v)
                              THEN [caches[i] EXCEPT !.entries = CoreEntries]
                              ELSE caches[i]]
            /\ workers' = [workers EXCEPT ![v].pc = "skipWaiting"]
       ELSE /\ workers' = [workers EXCEPT ![v].state = "redundant",
                                          ![v].pc = "idle"]
            /\ UNCHANGED caches
  /\ UNCHANGED <<pageVars, call, controller>>

\* Line 131, self.skipWaiting(), after which the install has succeeded: the
\* worker is installed and, its skip-waiting flag set, does not wait for
\* the pages of the active worker to close.
InstallSkipWaiting(v) ==
  /\ v \in 1..Len(workers)
  /\ workers[v].pc = "skipWaiting"
  /\ workers' = [workers EXCEPT ![v].state = "installed", ![v].pc = "idle"]
  /\ UNCHANGED <<pageVars, call, caches, controller>>

\* The browser activates the installed worker v: the worker that was active
\* is terminated and redundant, a page it controlled is handed to v, and
\* the activate event is dispatched.
Activate(v) ==
  /\ v \in 1..Len(workers)
  /\ workers[v].state = "installed"
  /\ workers' = [w \in 1..Len(workers) |->
                   IF w = v
                     THEN [state |-> "activating", pc |-> "keys", stale |-> {}]
                   ELSE IF workers[w].state = "activated"
                     THEN [workers[w] EXCEPT !.state = "redundant"]
                   ELSE workers[w]]
  /\ controller' = IF controller = 0 THEN 0 ELSE v
  /\ UNCHANGED <<pageVars, call, caches>>

ActivateKeysKeepsAll(v) ==
  /\ v \in 1..Len(workers)
  /\ workers[v].pc = "keys"
  /\ workers' = [workers EXCEPT ![v].pc = "delete", ![v].stale = {}]
  /\ UNCHANGED <<pageVars, call, caches, controller>>

\* Lines 137-140: caches.keys() settles and the listener filters the names
\* that are neither CORE_CACHE nor RUNTIME_CACHE; it calls caches.delete
\* for each of them.
ActivateKeys(v) ==
  /\ v \in 1..Len(workers)
  /\ workers[v].pc = "keys"
  /\ workers' = [workers EXCEPT
                   ![v].pc = "delete",
                   ![v].stale = {key \in Names(caches) :
                                   key # CORE_CACHE(v) /\ key # RUNTIME_CACHE(v)}]
  /\ UNCHANGED <<pageVars, call, caches, controller>>

\* Line 141: one of the deletions completes, in any order.
ActivateDelete(v, key) ==
  /\ v \in 1..Len(workers)
  /\ workers[v].pc = "delete"
  /\ key \in workers[v].stale
  /\ caches' = cachesDelete(caches, key)
  /\ workers' = [workers EXCEPT ![v].stale = @ \ {key}]
  /\ UNCHANGED <<pageVars, call, controller>>

\* Line 143: Promise.all has resolved; self.clients.claim() makes v the
\* controller of the open page and the activation is complete.
ActivateClaim(v) ==
  /\ v \in 1..Len(workers)
  /\ workers[v].pc = "delete"
  /\ workers[v].stale = {}
  /\ controller' = v
  /\ workers' = [workers EXCEPT ![v].state = "activated", ![v].pc = "idle"]
  /\ UNCHANGED <<pageVars, call, caches>>


\* Requests of a controlled page: the probe, a map tile, a script of the
\* core manifest, the root document, an icon no pattern matches, and the
\* POST of a signal.
FetchRequests ==
  {[method |-> "GET", url |-> HealthUrl],
   [method |-> "GET", url |-> Url("/api/map/tile/12/2100/1300", <<>>)],
   [method |-> "GET", url |-> Url("/app.js", <<>>)],
   [method |-> "GET", url |-> Url("/", <<>>)],
   [method |-> "GET", url |-> Url("/icons/icon-192.png", <<>>)],
   [method |-> "POST", url |-> Url("/api/spot/signal", <<>>)]}

\* What the network can answer to a request of path.
NetResponses(path) ==
  {[kind |-> "ok", body |-> path], [kind |-> "http_error", body |-> path],
   [kind |-> "network_error", body |-> path]}

\* A fetch event of the controlled page, handled by the active worker from
\* the listener's start to the settling of the promise given to
\* respondWith.  While the worker is activating, the event waits.
FetchEvent(request, net) ==
  /\ controller # 0
  /\ workers[controller].state = "activated"
  /\ LET handled == fetchListener(caches, controller, request, net)
     IN  /\ caches' = handled.caches
         /\ call' = [fn |-> "fetch", request |-> request,
                     intercepted |-> handled.intercepted,
                     response |-> handled.response, ops |-> handled.ops]
  /\ UNCHANGED <<pageVars, workers, controller>>

WorkerInit == InitWith(EmptyStorage, "uuid-a")

WorkerNext ==
  \/ Register
  \/ \E v \in 1..Len(workers) : InstallOpen(v)
  \/ \E v \in 1..Len(workers), failed \in {{}, {"/app.js"}} :
       InstallAddAll(v, failed)
  \/ \E v \in 1..Len(workers) : InstallSkipWaiting(v)
  \/ \E v \in 1..Len(workers) : Activate(v)
  \/ \E v \in 1..Len(workers) : ActivateKeys(v)
  \/ \E v \in 1..Len(workers), key \in Names(caches) : ActivateDelete(v, key)
  \/ \E v \in 1..Len(workers) : ActivateClaim(v)
  \/ \E request \in FetchRequests :
       \E net \in NetResponses(request.url.path) : FetchEvent(request, net)

SpecWorker == WorkerInit /\ [][WorkerNext]_vars


\* C18: the worker claims the page only when no partition other than its
\* own core and runtime partition is left, it deletes none of its own, and
\* while a worker is activated no partition of an earlier version exists.
C18_ActivateDeletesStale ==
  /\ [][\A v \in 1..Len(workers) :
          ActivateClaim(v) =>
            Names(caches) \subseteq {CORE_CACHE(v), RUNTIME_CACHE(v)}]_vars
  /\ [][\A v \in 1..Len(workers), key \in Names(caches) :
          ActivateDelete(v, key) =>
            key \notin {CORE_CACHE(v), RUNTIME_CACHE(v)}]_vars
  /\ [](\A v \in 1..Len(workers) :
          workers[v].state = "activated" =>
            \A key \in Names(caches) : key.version >= v)

\* Version 2 has activated after version 1 had been active and had filled
\* its runtime partition: only the core partition of version 2 is left and
\* version 2 controls the page.
C18_Witness ==
  /\ Len(workers) = 2
  /\ workers[1].state = "redundant"
  /\ workers[2].state = "activated"
  /\ controller = 2
  /\ call.fn = "fetch"
  /\ call.intercepted
  /\ Names(caches) = {CORE_CACHE(2)}

\* C19: while a worker is activated, the partitions that exist are exactly
\* the core and the runtime partition of its version.
C19_OneCoreOneRuntime ==
  \A v \in 1..Len(workers) :
    workers[v].state = "activated" =>
      Names(caches) = {CORE_CACHE(v), RUNTIME_CACHE(v)}

\* C20: skipWaiting is called only when every asset of the manifest is in
\* the worker's core partition; an install in which an asset cannot be
\* stored makes the worker redundant, and a redundant worker never
\* changes again; a worker that is installed, activating or activated has
\* the whole manifest in its core partition.
C20_InstallAllOrNothing ==
  /\ [][\A v \in 1..Len(workers) :
          InstallSkipWaiting(v) =>
            CoreEntries \subseteq EntriesOf(caches, CORE_CACHE(v))]_vars
  /\ [][\A v \in 1..Len(workers), failed \in SUBSET {"/app.js"} :
          (InstallAddAll(v, failed) /\ failed # {}) =>
            workers'[v].state = "redundant"]_vars
  /\ [][\A v \in 1..Len(workers) :
          workers[v].state = "redundant" => workers'[v] = workers[v]]_vars
  /\ [](\A v \in 1..Len(workers) :
          workers[v].state \in {"installed", "activating", "activated"} =>
            CoreEntries \subseteq EntriesOf(caches, CORE_CACHE(v)))

\* The install of version 2 failed on an asset: its core partition is empty,
\* it is redundant, and version 1 stays activated and in control.
C20_Witness ==
  /\ Len(workers) = 2
  /\ workers[1].state = "activated"
  /\ workers[2].state = "redundant"
  /\ controller = 1
  /\ HasCache(caches, CORE_CACHE(2))
  /\ EntriesOf(caches, CORE_CACHE(2)) = {}

(* ====================== the fetch listener alone ====================== *)
\* Requests the listener of the active worker can be handed: the probe, a
\* score query, a map tile, a script of the core manifest, the root
\* document, a page the manifest does not list, an icon no pattern matches
\* and a POST to a document path.
ListenerRequests ==
  {[method |-> "GET", url |-> HealthUrl],
   [method |-> "GET", url |-> ScoreUrl(PilotLat, PilotLon, SessionStart)],
   [method |-> "GET", url |-> Url("/api/map/tile/12/2100/1300", <<>>)],
   [method |-> "GET", url |-> Url("/app.js", <<>>)],
   [method |-> "GET", url |-> Url("/", <<>>)],
   [method |-> "GET", url |-> Url("/impressum.html", <<>>)],
   [method |-> "GET", url |-> Url("/icons/icon-192.png", <<>>)],
   [method |-> "POST", url |-> Url("/index.html", <<>>)]}

\* The worker of version 1 controls the page; its core partition is as
\* installed, or the origin's CacheStorage has been cleared since.
FetchInit ==
  /\ PageInit(EmptyStorage, "uuid-a")
  /\ workers = <<ActivatedWorker>>
  /\ controller = 1
  /\ caches \in {<<>>, <<[name |-> CORE_CACHE(1), entries |-> CoreEntries]>>}

FetchNext ==
  \E request \in ListenerRequests :
    \E net \in NetResponses(request.url.path) : FetchEvent(request, net)

SpecFetch == FetchInit /\ [][FetchNext]_vars

\* The entries a partition holds for a URL.
CopiesIn(cs, name, url) ==
  {e.response : e \in {x \in EntriesOf(cs, name) : x.url = url}}

\* C21: a request that is not a GET, or a GET whose path is none of the
\* tile, static, liveness/score and markup paths, is not answered by the
\* listener (no respondWith), and handling it performs no network or
\* CacheStorage operation and leaves every partition as it was.
C21_OthersPassThrough ==
  [][\A request \in ListenerRequests :
       \A net \in NetResponses(request.url.path) :
         (/\ FetchEvent(request, net)
          /\ \/ request.method # "GET"
             \/ request.url.path \notin
                  TilePaths \cup StaticPaths \cup ApiPaths \cup MarkupPaths)
         => /\ ~call'.intercepted
            /\ call'.ops = <<>>
            /\ caches' = caches]_vars

\* A GET of an icon that the core partition holds has been passed through.
C21_Witness ==
  /\ call.fn = "fetch"
  /\ call.request = [method |-> "GET",
                     url |-> Url("/icons/icon-192.png", <<>>)]
  /\ ~call.intercepted
  /\ cachesMatch(caches, call.request.url) # Null

\* C22: a GET of a tile or a static asset is answered with the cached
\* response, without a network request and without a write, when some
\* partition holds one; else, when the network answers, the answer is
\* stored under the request in the runtime partition and returned.
C22_CacheFirst ==
  [][\A request \in ListenerRequests :
       \A net \in NetResponses(request.url.path) :
         (/\ FetchEvent(request, net)
          /\ request.method = "GET"
          /\ request.url.path \in TilePaths \cup StaticPaths)
         => /\ call'.intercepted
            /\ IF cachesMatch(caches, request.url) # Null
                 THEN /\ call'.response = cachesMatch(caches, request.url)
                      /\ "fetch" \notin Range(call'.ops)
                      /\ caches' = caches
                 ELSE net.kind # "network_error" =>
                      /\ call'.response = Some(net)
                      /\ "fetch" \in Range(call'.ops)
                      /\ CopiesIn(caches', RUNTIME_CACHE(controller),
                                  request.url) = {net}]_vars

\* A tile has been answered from the runtime partition without a fetch.
C22_Witness ==
  /\ call.fn = "fetch"
  /\ call.request.url.path \in TilePaths
  /\ call.intercepted
  /\ call.response # Null
  /\ call.ops = <<"match">>
  /\ CopiesIn(caches, RUNTIME_CACHE(controller), call.request.url) # {}

\* C23: a GET of the liveness or the score endpoint asks the network first.
\* When the network answers, the answer becomes the only copy of the request
\* in the runtime partition and is returned; when the network fails, the
\* answer is the cached response of that request, and without one the
\* request fails.
C23_NetworkFirst ==
  [][\A request \in ListenerRequests :
       \A net \in NetResponses(request.url.path) :
         (/\ FetchEvent(request, net)
          /\ request.method = "GET"
          /\ request.url.path \in ApiPaths)
         => /\ call'.intercepted
            /\ Head(call'.ops) = "fetch"
            /\ IF net.kind # "network_error"
                 THEN /\ call'.response = Some(net)
                      /\ CopiesIn(caches', RUNTIME_CACHE(controller),
                                  request.url) = {net}
                 ELSE /\ call'.response = cachesMatch(caches, request.url)
                      /\ caches' = caches]_vars

\* The probe has been answered from the runtime partition after the
\* network had failed.
C23_Witness ==
  /\ call.fn = "fetch"
  /\ call.request.url = HealthUrl
  /\ call.ops = <<"fetch", "match">>
  /\ call.response # Null
  /\ call.response = cachesMatch(caches, HealthUrl)

\* C24: a GET of the root document or of an .html path is always answered:
\* with the network's answer when the network answers, else with the cached
\* response of the request, else with the cached /index.html, else with the
\* synthetic 503 "Offline" response; the promise never rejects.
C24_MarkupAlwaysAnswered ==
  [][\A request \in ListenerRequests :
       \A net \in NetResponses(request.url.path) :
         (/\ FetchEvent(request, net)
          /\ request.method = "GET"
          /\ request.url.path \in MarkupPaths)
         => /\ call'.intercepted
            /\ call'.response # Null
            /\ call'.response =
                 IF net.kind # "network_error" THEN Some(net)
                 ELSE IF cachesMatch(caches, request.url) # Null
                   THEN cachesMatch(caches, request.url)
                 ELSE IF cachesMatch(caches, Url("/index.html", <<>>)) # Null
                   THEN cachesMatch(caches, Url("/index.html", <<>>))
                 ELSE Some(OfflineResponse)]_vars

\* A page the manifest does not list has been answered offline with the
\* cached /index.html.
C24_Witness ==
  /\ call.fn = "fetch"
  /\ call.request.url.path = "/impressum.html"
  /\ call.ops = <<"fetch", "match", "match">>
  /\ call.response = Some(AssetResponse("/index.html"))

\* C25: the promise the listener hands to respondWith resolves to a
\* response for every intercepted GET, whatever the network and the
\* partitions are.
C25_InterceptedAlwaysAnswered ==
  (call.fn = "fetch" /\ call.intercepted) => call.response # Null

(* ================== sessions of one installation ====================== *)
\* A reload of the page: the old document's invocations and requests end
\* with it, and the declarations of lines 62-75 run again on what
\* localStorage holds; uuid is what crypto.randomUUID() would return.
Reload(uuid) ==
  LET id == ensureDeviceToken(localStorage, uuid) IN
  /\ pagePc = "running"
  /\ Events < MaxEvents
  /\ reloads' = reloads + 1
  /\ pagePc' = "boot"
  /\ currentSpot' = Null
  /\ scoreCache' = loadJSON(localStorage, SCORE_CACHE_KEY, <<>>)
  /\ signalQueue' = loadJSON(localStorage, SIGNAL_QUEUE_KEY, <<>>)
  /\ settings' = loadJSON(localStorage, SETTINGS_KEY, [signalsEnabled |-> TRUE])
  /\ apiOnline' = FALSE
  /\ lastHealthCheckAt' = Null
  /\ lastHealthLatencyMs' = Null
  /\ deviceToken' = id.token
  /\ localStorage' = id.store
  /\ signalStatus' = [msg |-> "none"]
  /\ queueStatus' = 0
  /\ dataStatus' = "none"
  /\ networkStatus' = [online |-> FALSE, checkedAt |-> Null, latency |-> Null]
  /\ flushes' = [p \in 1..Len(flushes) |->
                   IF flushes[p].pc = "await" THEN DonePass ELSE flushes[p]]
  /\ sends' = [k \in 1..Len(sends) |->
                 IF sends[k].pc = "await" THEN DoneSend ELSE sends[k]]
  /\ probes' = [p \in 1..Len(probes) |->
                  IF probes[p].pc = "await" THEN DoneProbe(0) ELSE probes[p]]
  /\ loads' = [l \in 1..Len(loads) |-> DoneLoad]
  /\ requests' = {}
  /\ loadScoreDisabled' = FALSE
  /\ UNCHANGED <<now, flushCalls, hints, ticks, toggles, puts, storageFull,
                 call, caches, workers, controller>>

\* A stored text that JSON.parse rejects.
Unparsable == [kind |-> "raw", val |-> "{oops"]

\* What an earlier session left: a token, one cached score, one queued
\* signal and the signals switched off.
PriorSession ==
  [StorageWith(PriorCache(1), PriorQueue(1)) EXCEPT
     ![SETTINGS_KEY] = JSONstringify([signalsEnabled |-> FALSE])]

Damaged(store, keys) ==
  [k \in StorageKeys |-> IF k \in keys THEN Unparsable ELSE store[k]]

\* The storage a page load can find: nothing (the first visit), what an
\* earlier session left, or that with the text of one or of all of the
\* three JSON keys damaged.
BootStorages ==
  {EmptyStorage, PriorSession}
    \cup {Damaged(PriorSession, {k}) :
            k \in {SETTINGS_KEY, SCORE_CACHE_KEY, SIGNAL_QUEUE_KEY}}
    \cup {Damaged(PriorSession,
                  {SETTINGS_KEY, SCORE_CACHE_KEY, SIGNAL_QUEUE_KEY})}

\* Answers of GET /spot/score of a session: a spot, a payload without
\* spot_id, or no answer.
SessionScoreResponses ==
  {[kind |-> "ok", payload |-> Some(PriorPayload)],
   [kind |-> "ok",
    payload |-> Some([spot_id |-> "", score |-> 50, has_data |-> TRUE])],
   [kind |-> "network_error", payload |-> Null]}

SessionInit ==
  \E store0 \in BootStorages, uuid \in UUIDs : InitWith(store0, uuid)

SessionNext ==
  \/ Initialize
  \/ \E uuid \in UUIDs : Reload(uuid)
  \/ \E checked \in BOOLEAN : SignalsEnabledChange(checked)
  \/ \E input \in LoadInputs : LoadScoreClick(input)
  \/ \E l \in 1..Len(loads), resp \in SessionScoreResponses :
       LoadScoreSettle(l, resp)
  \/ \E signalType \in SignalTypes : SendSignalClick(signalType)
  \/ \E k \in 1..Len(sends), resp \in SignalResponses : SendSignalSettle(k, resp)
  \/ \E p \in 1..Len(flushes), resp \in SignalResponses : FlushSettle(p, resp)

SpecSession == SessionInit /\ [][SessionNext]_vars

\* C26: once the page has loaded, the device token is persisted under its
\* key and equals the one in memory, a further call of ensureDeviceToken
\* returns it and writes nothing, and no step of the page, a reload
\* included, changes the token in memory or the persisted one.
C26_TokenStable ==
  /\ [](/\ localStorage[DEVICE_TOKEN_KEY] = [kind |-> "raw", val |-> deviceToken]
        /\ \A uuid \in UUIDs :
             ensureDeviceToken(localStorage, uuid) =
               [token |-> deviceToken, store |-> localStorage])
  /\ [][/\ deviceToken' = deviceToken
        /\ localStorage'[DEVICE_TOKEN_KEY] = localStorage[DEVICE_TOKEN_KEY]]_vars

\* The installation created its token on the first visit, the page has
\* written to storage since and has been reloaded.
C26_Witness ==
  /\ reloads > 0
  /\ deviceToken \in UUIDs
  /\ pagePc = "running"
  /\ localStorage[SCORE_CACHE_KEY].kind = "json"

\* C27: when the declarations of the script have run, each of the score
\* cache, the signal queue and the settings is the value its own stored text
\* encodes, or its default when its key is missing or its text does not
\* parse, whatever the texts of the other keys are.
C27_LoadFallsBack ==
  pagePc = "boot" =>
    /\ scoreCache = IF localStorage[SCORE_CACHE_KEY].kind = "json"
                      THEN localStorage[SCORE_CACHE_KEY].val ELSE <<>>
    /\ signalQueue = IF localStorage[SIGNAL_QUEUE_KEY].kind = "json"
                       THEN localStorage[SIGNAL_QUEUE_KEY].val ELSE <<>>
    /\ settings = IF localStorage[SETTINGS_KEY].kind = "json"
                    THEN localStorage[SETTINGS_KEY].val
                    ELSE [signalsEnabled |-> TRUE]

\* The page has been reloaded on a damaged settings text: the settings are
\* the default, and the cache and the queue are what the earlier session
\* left.
C27_Witness ==
  /\ pagePc = "boot"
  /\ reloads > 0
  /\ localStorage[SETTINGS_KEY] = Unparsable
  /\ settings = [signalsEnabled |-> TRUE]
  /\ scoreCache = PriorCache(1)
  /\ signalQueue = PriorQueue(1)

\* The entries of a queue carry a spot, a signal type, a device token and a
\* capture time.
WellFormed(queue) ==
  \A i \in 1..Len(queue) :
    /\ DOMAIN queue[i] = {"spot_id", "signal_type", "device_token", "timestamp"}
    /\ queue[i].spot_id # ""
    /\ queue[i].signal_type \in SignalTypes
    /\ queue[i].device_token \in UUIDs \cup {PriorToken}
    /\ queue[i].timestamp \in Nat

\* C28: a click on a signal button while no spot is loaded, or while the
\* loaded spot has no spot_id, issues no request and leaves the queue and
\* the storage as they were; and every entry of the queue, in memory and
\* persisted, carries a spot_id, a signal type, a device token and a
\* capture timestamp.
C28_NoSignalWithoutSpot ==
  /\ [][\A signalType \in SignalTypes :
          (/\ SendSignalClick(signalType)
           /\ (currentSpot = Null \/ currentSpot[1].spot_id = ""))
          => /\ requests' = requests
             /\ signalQueue' = signalQueue
             /\ localStorage' = localStorage
             /\ sends'[Len(sends')].pc = "done"]_vars
  /\ [](WellFormed(signalQueue) /\ WellFormed(StoredQueue))
  /\ [](\A r \in requests : r.signal.spot_id # "")

\* A score answer without spot_id is the current spot and the click on a
\* signal button has been refused.
C28_Witness ==
  /\ currentSpot # Null
  /\ currentSpot[1].spot_id = ""
  /\ settings.signalsEnabled
  /\ Len(sends) > 0
  /\ signalStatus = [msg |-> "load_spot_first"]
  /\ requests = {}

\* C29: between the synchronous steps of the page the persisted score
\* cache and the persisted signal queue read back as the lists in memory,
\* and a step that changes a list in memory writes its text in that step.
C29_StoredEqualsMemory ==
  /\ [](StoredCache = scoreCache /\ StoredQueue = signalQueue)
  /\ [][/\ scoreCache' # scoreCache =>
             localStorage'[SCORE_CACHE_KEY] = JSONstringify(scoreCache')
        /\ signalQueue' # signalQueue =>
             localStorage'[SIGNAL_QUEUE_KEY] = JSONstringify(signalQueue')]_vars

\* A score has been put into the cache and a signal has been queued, and
\* both lists are persisted.
C29_Witness ==
  /\ Len(scoreCache) > 0
  /\ Len(signalQueue) > 0
  /\ signalStatus.msg = "queued"
  /\ localStorage[SCORE_CACHE_KEY] = JSONstringify(scoreCache)
  /\ localStorage[SIGNAL_QUEUE_KEY] = JSONstringify(signalQueue)

(* ===================== storage that takes no write ==================== *)
\* A later visit of an installation: the token exists, a queue of at most
\* one signal is left, and the origin's storage quota may be used up, so
\* that setItem throws.
QuotaInit ==
  \E k \in 0..1, full \in BOOLEAN :
    /\ ModuleLevel(StorageWith(<<>>, PriorQueue(k)), "uuid-a")
    /\ storageFull = full
    /\ NoWorker

QuotaNext ==
  \/ Initialize
  \/ \E checked \in BOOLEAN : SignalsEnabledChange(checked)
  \/ \E input \in LoadInputs : LoadScoreClick(input)
  \/ \E l \in 1..Len(loads), resp \in ScoreResponses : LoadScoreSettle(l, resp)
  \/ \E signalType \in SignalTypes : SendSignalClick(signalType)
  \/ \E k \in 1..Len(sends), resp \in SignalResponses : SendSignalSettle(k, resp)
  \/ \E p \in 1..Len(flushes), resp \in SignalResponses : FlushSettle(p, resp)
  \/ \E p \in 1..Len(probes), resp \in HealthResponses :
       CheckApiHealthSettle(p, resp)
  \/ \E event \in {"online", "offline"} : OnNetworkHint(event)

SpecQuota == QuotaInit /\ [][QuotaNext]_vars

\* C30: no invocation of sendSignal or of flushSignalQueue ends with its
\* promise rejected, whatever the network answers and whether or not the
\* storage takes the write (checkApiHealth and loadScore catch every
\* failure inside them and have no such end).
C30_NoUnhandledRejection ==
  /\ \A k \in 1..Len(sends) : sends[k].pc # "rejected"
  /\ \A p \in 1..Len(flushes) : flushes[p].pc # "rejected"

(* ================= triggers that keep coming (liveness) =============== *)
\* Lines 157-161: an online/offline event that arrives while no pass is in
\* progress.  It is onNetworkHint with the history forgotten: the records
\* of the passes and probes that have ended are dropped and the counters
\* of events and calls stay, so that events can keep coming.
HintAgain(event) ==
  /\ pagePc = "running"
  /\ event \in {"online", "offline"}
  /\ \A p \in 1..Len(flushes) : flushes[p].pc # "await"
  /\ IF Len(signalQueue) = 0
       THEN /\ flushes' = <<>>
            /\ UNCHANGED requests
       ELSE /\ flushes' = <<[pc |-> "await", pending |-> signalQueue, i |-> 1,
                             keep |-> <<>>, outcomes |-> <<>>, enq |-> <<>>]>>
            /\ requests' = requests \cup
                 {NewRequest("flush", 1, flushSignalAt(signalQueue, 1))}
  /\ probes' = <<[pc |-> "await", started |-> now, ended |-> 0]>>
  /\ UNCHANGED <<pagePc, now, localStorage, scoreCache, signalQueue, settings,
                 currentSpot, deviceToken, apiOnline, lastHealthCheckAt,
                 lastHealthLatencyMs, signalStatus, queueStatus, dataStatus,
                 networkStatus, sends, loads, loadScoreDisabled, flushCalls,
                 hints, ticks, toggles, puts, reloads, storageFull, call,
                 caches, workers, controller>>

\* What POST /spot/signal ends in while the API is reachable: the signal
\* is accepted, or it is rejected by the cooldown rule.
ReachableResponses ==
  {r \in SignalResponses :
     r.kind = "ok" \/ (r.kind = "cooldown" /\ r.next_allowed_at # Null)}

LiveSettle ==
  \E p \in 1..Len(flushes), resp \in ReachableResponses : FlushSettle(p, resp)

LiveInit ==
  \E k \in 0..MaxPriorQueue : InitWith(StorageWith(<<>>, PriorQueue(k)), "uuid-a")

\* The sends of the session are few and may fail; the submissions of the
\* passes are answered by a reachable API.
LiveNext ==
  \/ Initialize
  \/ \E event \in {"online", "offline"} : HintAgain(event)
  \/ LiveSettle
  \/ \E input \in LoadInputs : LoadScoreClick(input)
  \/ \E l \in 1..Len(loads), resp \in ScoreResponses : LoadScoreSettle(l, resp)
  \/ \E signalType \in SignalTypes : SendSignalClick(signalType)
  \/ \E k \in 1..Len(sends), resp \in SignalResponses : SendSignalSettle(k, resp)

\* The events keep coming and every request settles.
LiveFairness ==
  /\ WF_vars(Initialize)
  /\ WF_vars(\E event \in {"online", "offline"} : HintAgain(event))
  /\ WF_vars(LiveSettle)
  /\ WF_vars(\E l \in 1..Len(loads), resp \in ScoreResponses :
               LoadScoreSettle(l, resp))
  /\ WF_vars(\E k \in 1..Len(sends), resp \in SignalResponses :
               SendSignalSettle(k, resp))

SpecLive == LiveInit /\ [][LiveNext]_vars /\ LiveFairness

\* C31: with flush triggers that keep coming and an API that answers every
\* submission of a pass (accepted, or rejected by the cooldown rule), the
\* queue is eventually empty and stays empty.
C31_QueueDrains == <>[](signalQueue = <<>>)

(* ----------------------- more queue properties ------------------------ *)
\* sub is seq with some entries left out, the order kept.
RECURSIVE IsSubSeq(_, _)
IsSubSeq(sub, seq) ==
  IF Len(sub) = 0 THEN TRUE
  ELSE IF Len(seq) = 0 THEN FALSE
  ELSE IF Head(sub) = Head(seq) THEN IsSubSeq(Tail(sub), Tail(seq))
  ELSE IsSubSeq(sub, Tail(seq))

\* C32: a call of flushSignalQueue on an empty queue starts no pass, issues
\* no request and writes nothing; on a non-empty queue it starts a pass on
\* a copy of the queue and writes nothing yet.  A pass keeps its snapshot,
\* changes neither the queue nor the storage before its last submission has
\* settled, and then, after one submission per snapshot entry, replaces the
\* queue by entries of the snapshot and persists it in that step.
C32_SnapshotPass ==
  /\ [][flushCalls' # flushCalls =>
          /\ localStorage' = localStorage
          /\ signalQueue' = signalQueue
          /\ IF signalQueue = <<>>
               THEN flushes' = flushes /\ requests' = requests
               ELSE /\ Len(flushes') = Len(flushes) + 1
                    /\ flushes'[Len(flushes')].pending = signalQueue
                    /\ Cardinality(requests') = Cardinality(requests) + 1]_vars
  /\ [][\A p \in 1..Len(flushes) :
          \* a submission of pass p settles in this step
          (/\ flushCalls' = flushCalls
           /\ flushes[p].pc = "await"
           /\ flushes'[p].i # flushes[p].i) =>
            IF flushes[p].i < Len(flushes[p].pending)
              THEN /\ localStorage' = localStorage
                   /\ signalQueue' = signalQueue
                   /\ flushes'[p].pc = "await"
                   /\ flushes'[p].pending = flushes[p].pending
              ELSE /\ flushes'[p].pc = "done"
                   /\ Len(flushes[p].outcomes) + 1 = Len(flushes[p].pending)
                   /\ IsSubSeq(signalQueue', flushes[p].pending)
                   /\ localStorage'[SIGNAL_QUEUE_KEY] =
                        JSONstringify(signalQueue')
                   /\ RequestsOf("flush", p)' = {}]_vars

\* A pass over two entries has completed: the first was delivered, the
\* second is kept and persisted.
C32_Witness ==
  /\ Len(flushes) > 0
  /\ flushes[1].pc = "done"
  /\ signalQueue = <<PriorSignal(2)>>
  /\ StoredQueue = signalQueue
  /\ requests = {}

\* C33: no two passes in progress hold the same queue entry in their
\* snapshots, so no entry is submitted by two passes.
C33_NoOverlappingPasses ==
  \A p, q \in 1..Len(flushes) :
    (p # q /\ flushes[p].pc = "await" /\ flushes[q].pc = "await") =>
      Range(flushes[p].pending) \cap Range(flushes[q].pending) = {}

\* C34: a click on a signal button with the signals enabled and a spot
\* loaded issues the submission of the new signal in that step, whatever
\* the queue holds: it starts no pass, calls no flush and leaves the queue
\* and the requests of the passes as they are.
C34_SendsAtOnce ==
  [][\A signalType \in SignalTypes :
       (/\ SendSignalClick(signalType)
        /\ settings.signalsEnabled
        /\ buildSignal(currentSpot, signalType, deviceToken, now) # Null)
       => /\ requests' =
               requests \cup
                 {NewRequest("send", Len(sends) + 1,
                             buildSignal(currentSpot, signalType,
                                         deviceToken, now)[1])}
          /\ Cardinality(requests') = Cardinality(requests) + 1
          /\ sends'[Len(sends')].pc = "await"
          /\ flushCalls' = flushCalls
          /\ flushes' = flushes
          /\ signalQueue' = signalQueue
          /\ localStorage' = localStorage]_vars

\* A new signal is being submitted while an older signal sits in the queue
\* and no pass is submitting it.
C34_Witness ==
  /\ Len(signalQueue) > 0
  /\ \E r \in requests :
       /\ r.op = "send"
       /\ \A i \in 1..Len(signalQueue) :
            signalQueue[i].timestamp < r.signal.timestamp
  /\ \A r \in requests : r.op # "flush"

\* C35: while the signals are switched off, a click on a signal button
\* issues no request, leaves the queue and the storage as they are and
\* shows that the signals are disabled; a call of flushSignalQueue on a
\* non-empty queue still starts a pass and submits its first entry, and a
\* pass in progress goes on submitting.
C35_SettingGatesOnlySend ==
  /\ [][\A signalType \in SignalTypes :
          (SendSignalClick(signalType) /\ ~settings.signalsEnabled)
          => /\ requests' = requests
             /\ signalQueue' = signalQueue
             /\ localStorage' = localStorage
             /\ signalStatus' = [msg |-> "signals_disabled"]]_vars
  /\ [][(/\ flushCalls' # flushCalls
         /\ ~settings.signalsEnabled
         /\ signalQueue # <<>>)
        => /\ Len(flushes') = Len(flushes) + 1
           /\ NewRequest("flush", Len(flushes'), signalQueue[1])
                \in requests']_vars
  /\ [][\A p \in 1..Len(flushes), resp \in SignalResponses :
          (/\ ~settings.signalsEnabled
           /\ flushes[p].i < Len(flushes[p].pending)
           /\ FlushSettle(p, resp))
          => NewRequest("flush", p, flushes[p].pending[flushes[p].i + 1])
               \in requests']_vars

\* With the signals switched off, a pass is submitting a queued signal.
C35_Witness ==
  /\ ~settings.signalsEnabled
  /\ pagePc = "running"
  /\ \E r \in requests : r.op = "flush" /\ r.signal \in Range(signalQueue)

(* ----------------------- more health properties ----------------------- *)
\* C36: the belief is online exactly when a latency is held; the step in
\* which a probe completes sets the check time to the time of that step,
\* whether the probe succeeded or failed, and a failed probe clears the
\* latency.
C36_BeliefLatencyCheckTime ==
  /\ [](apiOnline <=> lastHealthLatencyMs # Null)
  /\ [][\A p \in 1..Len(probes), net \in HealthResponses :
          CheckApiHealthSettle(p, net) =>
            /\ lastHealthCheckAt' = Some(now)
            /\ HealthResponse(net).kind # "ok" => lastHealthLatencyMs' = Null]_vars

\* Two probes have completed, the last of them with a failure: the belief
\* is offline, no latency is held and the check time is that of the failure.
C36_Witness ==
  /\ Len(probes) >= 2
  /\ \A p \in 1..Len(probes) : probes[p].pc = "done"
  /\ dataStatus = "api_offline"
  /\ ~apiOnline
  /\ lastHealthLatencyMs = Null
  /\ \E p \in 1..Len(probes) :
       /\ lastHealthCheckAt = Some(probes[p].ended)
       /\ \A q \in 1..Len(probes) : probes[q].ended <= probes[p].ended

\* The probes that have completed.
Completed == {p \in 1..Len(probes) : probes[p].pc = "done"}

\* C37: the step in which a probe completes sets belief, latency and check
\* time from that probe alone, whatever other probes are in flight or have
\* completed; so the check time held is always that of the probe that
\* completed last, in whatever order the probes were started.
C37_LastCompletedProbeWins ==
  /\ [][\A p \in 1..Len(probes), net \in HealthResponses :
          CheckApiHealthSettle(p, net) =>
            /\ apiOnline' = (HealthResponse(net).kind = "ok")
            /\ lastHealthLatencyMs' =
                 IF HealthResponse(net).kind = "ok"
                   THEN Some(now - probes[p].started) ELSE Null
            /\ networkStatus' =
                 renderNetworkStatus(apiOnline', Some(now),
                                     lastHealthLatencyMs')]_vars
  /\ [](Completed # {} =>
          \E p \in Completed :
            /\ lastHealthCheckAt = Some(probes[p].ended)
            /\ \A q \in Completed : probes[q].ended <= probes[p].ended)

\* Two probes overlapped; the one started later completed first with
\* success, the one started first completed last with a failure, and the
\* belief, latency and check time are those of the failure.
C37_Witness ==
  /\ Len(probes) = 2
  /\ Completed = {1, 2}
  /\ probes[1].ended > probes[2].ended
  /\ lastHealthCheckAt = Some(probes[1].ended)
  /\ ~apiOnline
  /\ lastHealthLatencyMs = Null

(* ======================= reading a full cache ========================= *)
\* The cache an earlier session filled to its capacity with the cells
\* 1..50; cell 1 is the tail.
ReadInit ==
  InitWith(StorageWith(PriorCache(MAX_CACHE_ITEMS), <<>>), "uuid-a")

\* Lookups and loads of the tail cell and of a cell that is not cached,
\* and puts of a new cell and of the tail cell.
ReadNext ==
  \/ Initialize
  \/ \E lat \in {CellLat(0), CellLat(1) + 1} : FindCachedScoreCall(lat, PilotLon)
  \/ \E cell \in {1, MAX_CACHE_ITEMS + 1} :
       PutScoreCacheCall(cell, PriorPayload)
  \/ \E input \in LoadInputs : LoadScoreClick(input)
  \/ \E l \in 1..Len(loads), resp \in ScoreResponses : LoadScoreSettle(l, resp)

SpecRead == ReadInit /\ [][ReadNext]_vars

\* C38: a call of findCachedScore and a load that falls back to the cache
\* leave the cache and its stored copy as they are, contents and order;
\* the cache changes only in a step that puts an entry; and an entry at the
\* tail of a full cache that the latest lookup has hit is evicted by the
\* next put of a new key all the same.
C38_ReadsLeaveCache ==
  /\ [][\A lat \in {CellLat(0), CellLat(1) + 1} :
          FindCachedScoreCall(lat, PilotLon) =>
            scoreCache' = scoreCache /\ localStorage' = localStorage]_vars
  /\ [][\A l \in 1..Len(loads), net \in ScoreResponses :
          (LoadScoreSettle(l, net) /\ ScoreResponse(l, net).kind # "ok") =>
            scoreCache' = scoreCache /\ localStorage' = localStorage]_vars
  /\ [][scoreCache' # scoreCache => puts' = puts + 1]_vars
  /\ [][(/\ puts' = puts + 1
         /\ Len(scoreCache) = MAX_CACHE_ITEMS
         /\ scoreCache'[1].key \notin Keys(scoreCache)
         /\ call.fn = "findCachedScore"
         /\ call.result = Some(scoreCache[MAX_CACHE_ITEMS]))
        => call.result[1].key \notin Keys(scoreCache')]_vars

\* The lookup of the tail cell hit, a load of that cell fell back to the
\* cached entry, and the put of a new cell has evicted the entry since.
C38_Witness ==
  /\ call.fn = "findCachedScore"
  /\ call.result = Some(PriorEntry(1))
  /\ signalStatus.msg = "cache_used"
  /\ currentSpot = Some(PriorEntry(1).payload)
  /\ Len(scoreCache) = MAX_CACHE_ITEMS
  /\ PriorEntry(1).key \notin Keys(scoreCache)
  /\ scoreCache[1].key = cacheKey(CellLat(MAX_CACHE_ITEMS + 1), PilotLon)

(* ================== the spot after a load without data ================ *)
\* Lines 616-628: a further click on load-score once the earlier loads have
\* run to their end; the finished invocations are forgotten.
LoadScoreAgain(input) ==
  /\ pagePc = "running"
  /\ ~loadScoreDisabled
  /\ now - SessionStart < MaxClock
  /\ \A l \in 1..Len(loads) : loads[l].pc = "done"
  /\ IF ~input.valid
       THEN /\ loads' = <<DoneLoad>>
            /\ UNCHANGED <<now, loadScoreDisabled>>
       ELSE /\ loads' = <<[pc |-> "await", lat |-> input.lat,
                           lon |-> input.lon, at |-> now]>>
            /\ loadScoreDisabled' = TRUE
            /\ now' = now + 1
  /\ UNCHANGED <<pagePc, localStorage, scoreCache, signalQueue, settings,
                 currentSpot, deviceToken, apiOnline, lastHealthCheckAt,
                 lastHealthLatencyMs, signalStatus, queueStatus, dataStatus,
                 networkStatus, flushes, sends, probes, requests,
                 flushCalls, hints, ticks, puts, toggles,
                 call, caches, workers, controller, reloads, storageFull>>

\* Coordinate inputs: a point of cell 1, a point of cell 2, and an input
\* that Number() turns into NaN.
SpotInputs ==
  {[valid |-> TRUE, lat |-> CellLat(1) + 1, lon |-> PilotLon - 1],
   [valid |-> TRUE, lat |-> CellLat(2), lon |-> PilotLon],
   [valid |-> FALSE, lat |-> 0, lon |-> 0]}

\* The page starts with the cache of an earlier session (none, or cell 1),
\* with or without a controlling worker.
SpotInit ==
  \E n \in 0..1 :
    /\ PageInit(StorageWith(PriorCache(n), <<>>), "uuid-a")
    /\ (NoWorker \/ WorkerControls({}))

SpotNext ==
  \/ Initialize
  \/ \E input \in SpotInputs : LoadScoreAgain(input)
  \/ \E l \in 1..Len(loads), net \in ScoreResponses : LoadScoreSettle(l, net)
  \/ \E signalType \in SignalTypes : SendSignalClick(signalType)
  \/ \E k \in 1..Len(sends), resp \in SignalResponses : SendSignalSettle(k, resp)

SpecSpot == SpotInit /\ [][SpotNext]_vars

\* C39: a loadScore whose fetch fails and whose cell has no cache entry
\* shows the no-data message (and no other loadScore does) and leaves the
\* current spot, the score cache and the stored cache unchanged; a signal
\* sent while that message is shown is built from the spot loaded before:
\* it carries that spot's spot_id.
C39_NoDataKeepsSpot ==
  /\ [][\A l \in 1..Len(loads), net \in ScoreResponses :
          LoadScoreSettle(l, net) =>
            LET nodata ==
                  /\ ScoreResponse(l, net).kind # "ok"
                  /\ findCachedScore(scoreCache, loads[l].lat,
                                     loads[l].lon) = Null
            IN  /\ nodata <=> signalStatus'.msg = "no_live_no_cache"
                /\ nodata => UNCHANGED <<currentSpot, scoreCache,
                                         localStorage, dataStatus>>]_vars
  /\ [][\A signalType \in SignalTypes :
          /\ SendSignalClick(signalType)
          /\ signalStatus.msg = "no_live_no_cache"
          /\ settings.signalsEnabled
          /\ buildSignal(currentSpot, signalType, deviceToken, now) # Null
          => /\ currentSpot' = currentSpot
             /\ sends'[Len(sends')].signal # Null
             /\ sends'[Len(sends')].signal[1].spot_id
                  = currentSpot[1].spot_id]_vars

\* A signal for spot-2, loaded live for cell 1, is in flight after a load
\* of a cell without cache entry has failed.
C39_Witness ==
  /\ signalStatus.msg = "no_live_no_cache"
  /\ currentSpot = Some([spot_id |-> "spot-2", score |-> 35,
                         has_data |-> FALSE])
  /\ Keys(scoreCache) = {cacheKey(CellLat(1), PilotLon)}
  /\ Len(loads) = 1 /\ loads[1].pc = "done"
  /\ \E k \in 1..Len(sends) :
       /\ sends[k].pc = "await"
       /\ sends[k].signal[1].spot_id = "spot-2"

(* ------------------- what the strategies store ------------------------ *)
\* C40: neither strategy looks at the status of the response its fetch
\* resolves with: a non-2xx answer is returned and becomes the only copy
\* of the request in the runtime partition; a cache-first request that
\* some partition holds a copy of is answered with that copy whatever its
\* status; and a network-first request consults the cache exactly when the
\* fetch itself rejects.
C40_StoresAnyStatus ==
  [][\A request \in ListenerRequests :
       \A net \in NetResponses(request.url.path) :
         (FetchEvent(request, net) /\ call'.intercepted)
         => /\ ("fetch" \in Range(call'.ops) /\ net.kind = "http_error")
                 => /\ call'.response = Some(net)
                    /\ "put" \in Range(call'.ops)
                    /\ CopiesIn(caches', RUNTIME_CACHE(controller),
                                request.url) = {net}
            /\ (/\ request.url.path \in TilePaths \cup StaticPaths
                /\ cachesMatch(caches, request.url) # Null)
                 => /\ call'.response = cachesMatch(caches, request.url)
                    /\ call'.ops = <<"match">>
            /\ request.url.path \in ApiPaths \cup MarkupPaths
                 => ("match" \in Range(call'.ops)
                       <=> net.kind = "network_error")]_vars

\* A tile has been answered by a cache-first hit with a stored non-2xx
\* response, and the probe's stored copy is a non-2xx response too.
C40_Witness ==
  /\ call.fn = "fetch"
  /\ call.request.url.path \in TilePaths
  /\ call.ops = <<"match">>
  /\ call.response = Some([kind |-> "http_error",
                           body |-> call.request.url.path])
  /\ CopiesIn(caches, RUNTIME_CACHE(controller), HealthUrl)
       = {[kind |-> "http_error", body |-> HealthUrl.path]}

====
